---------------------------- MODULE Spec2Model ----------------------------
(***************************************************************************)
(* yolo-cage: the git dispatcher (src/dispatcher/main.py), its path        *)
(* translator (src/dispatcher/paths.py) and the egress proxy addon         *)
(* (src/dockerfiles/proxy/secret_scanner.py).                              *)
(*                                                                         *)
(* Strings.  A Python str is modelled as the sequence of its pieces: each  *)
(* of the characters '-', ':', '/' and '.' is a piece of its own, and a    *)
(* run of other characters is one piece.  "HEAD:main" is                   *)
(* <<"HEAD", ":", "main">>, "-f" is <<"-", "f">>, "" is <<>>.  Prefix,     *)
(* suffix, substring and split operations are computed on the pieces.      *)
(*                                                                         *)
(* Optional values.  Python's None is <<>> and a present value v is <<v>>. *)
(***************************************************************************)
EXTENDS Integers, Sequences, FiniteSets, TLC

None == <<>>
Some(v) == <<v>>

(***************************************************************************)
(* str operations                                                          *)
(***************************************************************************)
\* s.startswith(p)
StartsWith(s, p) ==
    /\ Len(s) >= Len(p)
    /\ \A i \in 1..Len(p) : s[i] = p[i]

\* s.endswith(p)
EndsWith(s, p) ==
    /\ Len(s) >= Len(p)
    /\ \A i \in 1..Len(p) : s[Len(s) - Len(p) + i] = p[i]

\* sub in s
Contains(s, sub) ==
    \E i \in 0..(Len(s) - Len(sub)) : \A j \in 1..Len(sub) : s[i + j] = sub[j]

\* index of the first occurrence of the one-piece separator c in s, 0 if none
FirstIndex(s, c) ==
    IF \E i \in 1..Len(s) : s[i] = c
    THEN CHOOSE i \in 1..Len(s) : s[i] = c /\ \A j \in 1..(i - 1) : s[j] # c
    ELSE 0

\* s.split(c, 1)[1]: what follows the first c (s contains c)
AfterFirst(s, c) == SubSeq(s, FirstIndex(s, c) + 1, Len(s))

\* s.split(c): the list of segments between the separators
RECURSIVE Split(_, _)
Split(s, c) ==
    IF FirstIndex(s, c) = 0 THEN <<s>>
    ELSE <<SubSeq(s, 1, FirstIndex(s, c) - 1)>> \o Split(AfterFirst(s, c), c)

\* c.join(parts)
RECURSIVE Join(_, _)
Join(parts, c) ==
    IF Len(parts) = 0 THEN <<>>
    ELSE IF Len(parts) = 1 THEN parts[1]
    ELSE parts[1] \o <<c>> \o Join(Tail(parts), c)

(***************************************************************************)
(* Dispatcher configuration and tables                                     *)
(***************************************************************************)
WORKSPACE_ROOT == <<"/", "workspaces">>
AGENT_WORKSPACE == <<"/", "home", "/", "dev", "/", "workspace">>

ALLOWLIST_LOCAL ==
    { <<"add">>, <<"rm">>, <<"status">>, <<"log">>, <<"diff">>, <<"show">>,
      <<"stash">>, <<"reset">>, <<"restore">>, <<"rev", "-", "parse">>,
      <<"ls", "-", "files">>, <<"blame">>, <<"shortlog">>, <<"describe">>,
      <<"tag">> }

ALLOWLIST_BRANCH == { <<"branch">>, <<"checkout">>, <<"switch">> }

ALLOWLIST_MERGE == { <<"merge">>, <<"rebase">>, <<"cherry", "-", "pick">> }

ALLOWLIST_REMOTE_READ == { <<"fetch">>, <<"pull">> }

ALLOWLIST_REMOTE_WRITE == { <<"push">> }

\* the keys of DENYLIST_WITH_MESSAGE
DENYLIST_KEYS ==
    { <<"remote">>, <<"clone">>, <<"submodule">>, <<"credential">>, <<"config">> }

\* DENYLIST_WITH_MESSAGE[cmd]: the message text, kept as one piece per message
DENYLIST_WITH_MESSAGE(cmd) ==
    IF cmd = <<"remote">> THEN <<"yolo-cage: remote management is not permitted">>
    ELSE IF cmd = <<"clone">>
    THEN <<"yolo-cage: clone is not permitted; use the provided workspace">>
    ELSE IF cmd = <<"submodule">> THEN <<"yolo-cage: submodules are not supported">>
    ELSE IF cmd = <<"credential">>
    THEN <<"yolo-cage: credential management is not permitted">>
    ELSE <<"yolo-cage: direct git configuration is not permitted.\nUser identity and settings are managed via deployment configuration.">>

Categories ==
    { "local", "branch", "merge", "remote_read", "remote_write", "denied", "unknown" }

(***************************************************************************)
(* get_git_command, classify_command                                       *)
(***************************************************************************)
\* mutant: the first token, flag or not
get_git_command_first(args) ==
    IF Len(args) = 0 THEN None ELSE Some(args[1])

\* the first token that does not start with '-', None if there is none
get_git_command(args) ==
    IF \E i \in 1..Len(args) : ~StartsWith(args[i], <<"-">>)
    THEN Some(args[CHOOSE i \in 1..Len(args) :
                    /\ ~StartsWith(args[i], <<"-">>)
                    /\ \A j \in 1..(i - 1) : StartsWith(args[j], <<"-">>)])
    ELSE None

\* mutant: a command that is in no table is treated as a local one
classify_command_permissive(args) ==
    LET cmd == get_git_command(args) IN
    IF cmd = None THEN [category |-> "local", deny_message |-> None]
    ELSE IF cmd[1] \in DENYLIST_KEYS
    THEN [category |-> "denied", deny_message |-> Some(DENYLIST_WITH_MESSAGE(cmd[1]))]
    ELSE IF cmd[1] \in ALLOWLIST_BRANCH
    THEN [category |-> "branch", deny_message |-> None]
    ELSE IF cmd[1] \in ALLOWLIST_MERGE
    THEN [category |-> "merge", deny_message |-> None]
    ELSE IF cmd[1] \in ALLOWLIST_REMOTE_READ
    THEN [category |-> "remote_read", deny_message |-> None]
    ELSE IF cmd[1] \in ALLOWLIST_REMOTE_WRITE
    THEN [category |-> "remote_write", deny_message |-> None]
    ELSE [category |-> "local", deny_message |-> None]

\* (category, deny_message)
classify_command(args) ==
    LET cmd == get_git_command(args) IN
    IF cmd = None THEN [category |-> "unknown", deny_message |-> None]
    ELSE IF cmd[1] \in DENYLIST_KEYS
    THEN [category |-> "denied", deny_message |-> Some(DENYLIST_WITH_MESSAGE(cmd[1]))]
    ELSE IF cmd[1] \in ALLOWLIST_LOCAL
    THEN [category |-> "local", deny_message |-> None]
    ELSE IF cmd[1] \in ALLOWLIST_BRANCH
    THEN [category |-> "branch", deny_message |-> None]
    ELSE IF cmd[1] \in ALLOWLIST_MERGE
    THEN [category |-> "merge", deny_message |-> None]
    ELSE IF cmd[1] \in ALLOWLIST_REMOTE_READ
    THEN [category |-> "remote_read", deny_message |-> None]
    ELSE IF cmd[1] \in ALLOWLIST_REMOTE_WRITE
    THEN [category |-> "remote_write", deny_message |-> None]
    ELSE [category |-> "unknown", deny_message |-> None]

(***************************************************************************)
(* paths.py: os.path.normpath and translate_cwd                            *)
(***************************************************************************)
DOT == <<".">>
DOTDOT == <<".", ".">>

\* the loop of posixpath.normpath over the components, new_comps so far in acc
RECURSIVE NormComps(_, _, _)
NormComps(comps, acc, initial_slashes) ==
    IF Len(comps) = 0 THEN acc
    ELSE LET comp == Head(comps) IN
         IF comp = <<>> \/ comp = DOT
         THEN NormComps(Tail(comps), acc, initial_slashes)
         ELSE IF \/ comp # DOTDOT
                 \/ (initial_slashes = 0 /\ Len(acc) = 0)
                 \/ (Len(acc) > 0 /\ acc[Len(acc)] = DOTDOT)
         THEN NormComps(Tail(comps), Append(acc, comp), initial_slashes)
         ELSE IF Len(acc) > 0
         THEN NormComps(Tail(comps), SubSeq(acc, 1, Len(acc) - 1), initial_slashes)
         ELSE NormComps(Tail(comps), acc, initial_slashes)

\* posixpath.normpath
normpath(path) ==
    IF path = <<>> THEN DOT
    ELSE LET initial_slashes ==
                 IF ~StartsWith(path, <<"/">>) THEN 0
                 ELSE IF StartsWith(path, <<"/", "/">>) /\ ~StartsWith(path, <<"/", "/", "/">>)
                 THEN 2 ELSE 1
             joined == Join(NormComps(Split(path, "/"), <<>>, initial_slashes), "/")
             out == IF initial_slashes = 2 THEN <<"/", "/">> \o joined
                    ELSE IF initial_slashes = 1 THEN <<"/">> \o joined
                    ELSE joined
         IN IF out = <<>> THEN DOT ELSE out

\* translate_cwd: [ok |-> TRUE, path |-> server path], or [ok |-> FALSE] for
\* InvalidPathError
translate_cwd(agent_cwd, branch) ==
    LET normalized == normpath(agent_cwd) IN
    IF normalized = AGENT_WORKSPACE
    THEN [ok |-> TRUE, path |-> WORKSPACE_ROOT \o <<"/">> \o branch]
    ELSE IF StartsWith(normalized, AGENT_WORKSPACE \o <<"/">>)
    THEN LET relative == SubSeq(normalized, Len(AGENT_WORKSPACE) + 2, Len(normalized)) IN
         IF Contains(relative, DOTDOT)
         THEN [ok |-> FALSE, path |-> <<>>]
         ELSE [ok |-> TRUE, path |-> WORKSPACE_ROOT \o <<"/">> \o branch \o <<"/">> \o relative]
    ELSE [ok |-> FALSE, path |-> <<>>]

(***************************************************************************)
(* Bounds and inputs of the dispatcher model                               *)
(***************************************************************************)
MaxFlags == 1
MaxHooks == 2

IPs == { "10.0.0.5", "10.0.0.9" }

MAIN == <<"main">>
FEATURE == <<"feature", "-", "x">>
Branches == { MAIN, FEATURE }

FLAG == <<"-", "f">>
ORIGIN == <<"origin">>

\* operands of a push after the repository name
PushOperands ==
    { MAIN, FEATURE,
      <<"HEAD", ":", "main">>, <<"HEAD", ":", "feature", "-", "x">>,
      <<"HEAD", ":">>, <<":", "main">>,
      <<"-", "-", "force", "-", "with", "-", "lease=main", ":", "sha">> }

CommandLines ==
    { <<>>, <<ORIGIN>>, <<<<"status">>>>, <<<<"config">>, <<"user", ".", "email">>>>,
      <<<<"checkout">>>>, <<<<"checkout">>, MAIN>>, <<<<"checkout">>, FEATURE>>,
      <<<<"checkout">>, FLAG, MAIN>>,
      <<<<"merge">>, MAIN>>, <<<<"rebase">>, MAIN>>,
      <<<<"fetch">>, ORIGIN>>,
      <<<<"push">>>>, <<<<"push">>, ORIGIN>>,
      <<<<"push">>, ORIGIN, <<"HEAD", ":", "feature", "-", "x">>, <<"HEAD", ":", "main">>>> }
    \cup { <<<<"push">>, ORIGIN, o>> : o \in PushOperands }

\* 0..MaxFlags flags in front of the command line
RECURSIVE Flags(_)
Flags(n) == IF n = 0 THEN <<>> ELSE <<FLAG>> \o Flags(n - 1)

Argvs == { Flags(n) \o c : n \in 0..MaxFlags, c \in CommandLines }

Cwds ==
    { AGENT_WORKSPACE,
      AGENT_WORKSPACE \o <<"/", "src">>,
      <<"/", "etc">>,
      AGENT_WORKSPACE \o <<"/", ".", ".", "/", ".", ".", "/", "etc">> }

\* the hook commands a deployment may configure, in order
HookNames == [i \in 1..MaxHooks |-> i]
HookConfigs == { SubSeq(HookNames, 1, n) : n \in 0..MaxHooks }

\* what `git rev-parse --abbrev-ref HEAD` yields: the branch name on exit 0,
\* None on a non-zero exit, a timeout or a launch failure
ProbeOutcomes == { None } \cup { Some(b) : b \in Branches \cup { <<"HEAD">> } }

\* what one hook run does: it exits 0 ("ok") or non-zero, or it is killed at
\* the timeout, or it cannot be launched ("error"); stdout and stderr tell
\* whether the child wrote anything to the captured stream before it ended
HookOutcomes ==
    { [kind |-> k, stdout |-> o, stderr |-> r] :
        k \in { "ok", "nonzero", "timeout" }, o \in BOOLEAN, r \in BOOLEAN }
    \cup { [kind |-> "error", stdout |-> FALSE, stderr |-> FALSE] }
HookQuiet == [kind |-> "ok", stdout |-> FALSE, stderr |-> FALSE]

\* the hook outcomes drawn for a /git request, one of each kind: a silent
\* success, a failure and a timeout that wrote to stdout, a launch failure
HandlerHookOutcomes ==
    { o \in HookOutcomes :
        o.stdout = (o.kind \in { "nonzero", "timeout" }) /\ o.stderr = FALSE }

\* what writing /tmp/git-askpass.sh does: "ok", or the step that raises
HelperOutcomes == { "ok", "open_error", "write_error", "chmod_error" }

\* what the git subprocess does
ToolOutcomes ==
    { [kind |-> "exit", code |-> 0], [kind |-> "exit", code |-> 1],
      [kind |-> "exit", code |-> 128],
      [kind |-> "timeout", code |-> 0], [kind |-> "error", code |-> 0] }

\* the outcomes of the external steps of one request; a step that the handler
\* does not reach keeps its default
DefaultEnv ==
    [probe |-> None, hooks |-> [i \in 1..MaxHooks |-> HookQuiet], helper |-> "ok",
     tool |-> [kind |-> "exit", code |-> 0]]

VARIABLES
    branch_registry,   \* dict: a function from the registered addresses to branches
    GITHUB_PAT,        \* TRUE iff the configured token is non-empty
    PRE_PUSH_HOOKS,    \* the configured hook list
    askpass_exists,    \* TRUE iff /tmp/git-askpass.sh exists on disk
    last,              \* None, or Some(the request being answered and its response)
    llm_guard_available,  \* SecretScanner.llm_guard_available
    audit_log,         \* the lines of LOG_FILE, oldest first
    flow,              \* None, or Some(the flow the addon has just handled)
    tasks,             \* the /git requests on the event loop, by arrival number
    worktree_head,     \* the branch the working tree is on
    askpass_writer     \* the task that wrote /tmp/git-askpass.sh, 0 if it is absent

pvars == <<llm_guard_available, audit_log, flow>>
lvars == <<tasks, worktree_head, askpass_writer>>
vars == <<branch_registry, GITHUB_PAT, PRE_PUSH_HOOKS, askpass_exists, last,
          llm_guard_available, audit_log, flow, tasks, worktree_head, askpass_writer>>
dvars == <<branch_registry, GITHUB_PAT, PRE_PUSH_HOOKS, askpass_exists, last,
           tasks, worktree_head, askpass_writer>>

\* no request is followed step by step
NoTasks == tasks = <<>> /\ worktree_head = <<"main">> /\ askpass_writer = 0

(***************************************************************************)
(* handle_git and what it calls                                            *)
(***************************************************************************)
\* mutant: an unknown address is served as if bound to main
registry_get_default(registry, ip) ==
    IF ip \in DOMAIN registry THEN Some(registry[ip]) ELSE Some(MAIN)

\* branch_registry.get(client_ip)
registry_get(registry, ip) ==
    IF ip \in DOMAIN registry THEN Some(registry[ip]) ELSE None

\* mutant: a failed probe is let through
merge_guard_denies_lenient(current, assigned_branch) ==
    current # None /\ current # Some(assigned_branch)

\* line 383: current != assigned_branch
merge_guard_denies(current, assigned_branch) == current # Some(assigned_branch)

\* mutant: a push whose probe failed is let through
push_branch_denies_lenient(current, assigned_branch) ==
    current # None /\ current # Some(assigned_branch)

\* line 398: current != assigned_branch
push_branch_denies(current, assigned_branch) == current # Some(assigned_branch)

\* mutant: only the first refspec token is inspected
refspec_denies_first(args, assigned_branch) ==
    \E i \in 1..Len(args) :
        /\ Contains(args[i], <<":">>) /\ ~StartsWith(args[i], <<"-">>)
        /\ \A j \in 1..(i - 1) : ~(Contains(args[j], <<":">>) /\ ~StartsWith(args[j], <<"-">>))
        /\ AfterFirst(args[i], ":") # <<>>
        /\ AfterFirst(args[i], ":") # assigned_branch

\* lines 410-419: some token with ':' and no leading '-' has a non-empty
\* remote half other than the assigned branch
refspec_denies(args, assigned_branch) ==
    \E i \in 1..Len(args) :
        /\ Contains(args[i], <<":">>)
        /\ ~StartsWith(args[i], <<"-">>)
        /\ AfterFirst(args[i], ":") # <<>>
        /\ AfterFirst(args[i], ":") # assigned_branch

\* lines 360-378: the target of the notice, None when no notice is added
message_prefix(args, assigned_branch, category) ==
    LET cmd == get_git_command(args)
        IsSub(i) == args[i] \in { <<"checkout">>, <<"switch">> } /\ i + 1 <= Len(args)
        Hit(i) == IsSub(i) /\ ~StartsWith(args[i + 1], <<"-">>)
    IN IF /\ category = "branch"
          /\ cmd \in { Some(<<"checkout">>), Some(<<"switch">>) }
          /\ \E i \in 1..Len(args) : Hit(i)
       THEN LET i == CHOOSE k \in 1..Len(args) : Hit(k) /\ \A j \in 1..(k - 1) : ~Hit(j)
                target == args[i + 1]
            IN IF target # <<>> /\ target # assigned_branch THEN Some(target) ELSE None
       ELSE None

\* the text a hook command writes to its stdout and to its stderr
HookStdout(hook_cmd) == <<"stdout of hook ", ToString(hook_cmd)>>
HookStderr(hook_cmd) == <<"stderr of hook ", ToString(hook_cmd)>>

\* lines 179-198: what one hook run appends to outputs; a TimeoutExpired or
\* another exception leaves the function before result is bound, so only the
\* diagnostic line is appended then
hook_outputs(hook_cmd, o) ==
    IF o.kind = "timeout" THEN << <<"Hook timed out", ":", " ", ToString(hook_cmd)>> >>
    ELSE IF o.kind = "error"
    THEN << <<"Hook failed", ":", " ", ToString(hook_cmd), ":", " ", "e">> >>
    ELSE (IF o.stdout THEN <<HookStdout(hook_cmd)>> ELSE <<>>)
         \o (IF o.stderr THEN <<HookStderr(hook_cmd)>> ELSE <<>>)

\* mutant: the loop goes on after a hook that failed
RECURSIVE run_hooks_from_all(_, _, _, _)
run_hooks_from_all(i, hooks, cwd, outcomes) ==
    IF i > Len(hooks) THEN [success |-> TRUE, procs |-> <<>>, outputs |-> <<>>]
    ELSE LET p == [kind |-> "hook", cwd |-> cwd, n |-> hooks[i], askpass |-> FALSE]
             rest == run_hooks_from_all(i + 1, hooks, cwd, outcomes)
         IN [success |-> rest.success /\ outcomes[i].kind = "ok",
             procs |-> <<p>> \o rest.procs,
             outputs |-> hook_outputs(hooks[i], outcomes[i]) \o rest.outputs]

\* the loop of run_pre_push_hooks from hook i on: the hooks run in order up to
\* the first one that does not exit 0; outcomes[i] is what hook i does when it
\* is run; outputs is the list the captured texts are appended to
RECURSIVE run_hooks_from(_, _, _, _)
run_hooks_from(i, hooks, cwd, outcomes) ==
    IF i > Len(hooks) THEN [success |-> TRUE, procs |-> <<>>, outputs |-> <<>>]
    ELSE LET p == [kind |-> "hook", cwd |-> cwd, n |-> hooks[i], askpass |-> FALSE] IN
         IF outcomes[i].kind # "ok"
         THEN [success |-> FALSE, procs |-> <<p>>,
               outputs |-> hook_outputs(hooks[i], outcomes[i])]
         ELSE LET rest == run_hooks_from(i + 1, hooks, cwd, outcomes) IN
              [success |-> rest.success, procs |-> <<p>> \o rest.procs,
               outputs |-> hook_outputs(hooks[i], outcomes[i]) \o rest.outputs]

\* run_pre_push_hooks: (success, "\n".join(outputs)) and the processes started
run_pre_push_hooks(hooks, cwd, outcomes) ==
    LET r == run_hooks_from(1, hooks, cwd, outcomes) IN
    [success |-> r.success, procs |-> r.procs, output |-> Join(r.outputs, "\n")]

\* the (exit_code, stdout, stderr) of the subprocess.run of the tool
tool_result(tool) ==
    IF tool.kind = "exit" THEN [exit_code |-> tool.code, output |-> "tool_output"]
    ELSE IF tool.kind = "timeout" THEN [exit_code |-> 1, output |-> "timed_out"]
    ELSE [exit_code |-> 1, output |-> "failed_to_execute"]

\* execute_git
execute_git(args, cwd, tool) ==
    [raised |-> FALSE,
     exit_code |-> tool_result(tool).exit_code,
     output |-> tool_result(tool).output,
     procs |-> <<[kind |-> "tool", cwd |-> cwd, n |-> 0, askpass |-> FALSE]>>]

\* execute_git_with_auth: the helper file is written before the try block, so
\* an error raised while writing it leaves the function without the finally
execute_git_with_auth(args, cwd, pat, exists, helper, tool) ==
    IF pat /\ helper = "open_error"
    THEN [raised |-> TRUE, exit_code |-> 1, output |-> "exception", procs |-> <<>>,
          exists |-> exists]
    ELSE IF pat /\ helper \in { "write_error", "chmod_error" }
    THEN [raised |-> TRUE, exit_code |-> 1, output |-> "exception", procs |-> <<>>,
          exists |-> TRUE]
    ELSE [raised |-> FALSE,
          exit_code |-> tool_result(tool).exit_code,
          output |-> tool_result(tool).output,
          procs |-> <<[kind |-> "tool", cwd |-> cwd, n |-> 0, askpass |-> pat]>>,
          exists |-> IF pat THEN FALSE ELSE exists]

\* a response of /git; exit_code is the X-Yolo-Cage-Exit-Code header, body
\* names the kind of content, text is the message of a denied or unknown
\* command and the hook output of a push that the hooks rejected
Response(status, exit_code, body, text, notice) ==
    [status |-> status, exit_code |-> exit_code, body |-> body, text |-> text,
     notice |-> notice]

\* line 352: the content for a command that is in no table
UNKNOWN_MESSAGE == <<"yolo-cage: unrecognized or disallowed git operation">>

\* the outcome of handle_git: the response, the subprocesses started in order,
\* the helper file afterwards, and the external steps whose outcome was used
Outcome(ip, args, cwd, assigned, category, response, procs, exists, used) ==
    [endpoint |-> "git", ip |-> ip, args |-> args, cwd |-> cwd, assigned |-> assigned,
     category |-> category, response |-> response, procs |-> procs,
     exists |-> exists, used |-> used]

handle_git(registry, pat, hooks, exists, ip, args, cwd, e) ==
    LET assigned == registry_get(registry, ip)
        c == classify_command(args)
        category == c.category
        Deny(body, text, procs, used) ==
            Outcome(ip, args, cwd, assigned, category,
                    Response(200, Some(1), body, text, None), procs, exists, used)
        probe == <<[kind |-> "probe", cwd |-> cwd, n |-> 0, askpass |-> FALSE]>>
    IN
    IF assigned = None
    THEN Outcome(ip, args, cwd, assigned, "none",
                 Response(403, None, "not_registered", None, None), <<>>, exists, {})
    ELSE IF category = "denied" THEN Deny("denied", c.deny_message, <<>>, {})
    ELSE IF category = "unknown" THEN Deny("unknown", Some(UNKNOWN_MESSAGE), <<>>, {})
    ELSE IF category = "merge" /\ merge_guard_denies(e.probe, assigned[1])
    THEN Deny("merge_denied", None, probe, { "probe" })
    ELSE IF category = "remote_write" /\ push_branch_denies(e.probe, assigned[1])
    THEN Deny("push_branch_denied", None, probe, { "probe" })
    ELSE IF category = "remote_write" /\ refspec_denies(args, assigned[1])
    THEN Deny("push_refspec_denied", None, probe, { "probe" })
    ELSE
    LET h == IF category = "remote_write"
             THEN run_pre_push_hooks(hooks, cwd, e.hooks)
             ELSE [success |-> TRUE, procs |-> <<>>, output |-> <<>>]
        before == (IF category \in { "merge", "remote_write" } THEN probe ELSE <<>>)
                  \o h.procs
        used0 == (IF category \in { "merge", "remote_write" } THEN { "probe" } ELSE {})
                 \cup (IF category = "remote_write" THEN { "hooks" } ELSE {})
    IN
    IF ~h.success THEN Deny("hooks_rejected", Some(h.output), before, used0)
    ELSE
    LET auth == category \in { "remote_read", "remote_write" }
        x == IF auth THEN execute_git_with_auth(args, cwd, pat, exists, e.helper, e.tool)
             ELSE execute_git(args, cwd, e.tool) @@ [exists |-> exists]
        used1 == used0 \cup (IF auth /\ pat THEN { "helper" } ELSE {})
                       \cup (IF x.raised THEN {} ELSE { "tool" })
    IN
    IF x.raised
    THEN Outcome(ip, args, cwd, assigned, category,
                 Response(500, None, "internal_server_error", None, None),
                 before \o x.procs, x.exists, used1)
    ELSE Outcome(ip, args, cwd, assigned, category,
                 Response(200, Some(x.exit_code), x.output, None,
                          message_prefix(args, assigned[1], category)),
                 before \o x.procs, x.exists, used1)

(***************************************************************************)
(* The dispatcher as a state machine.  The handlers are `async def` and     *)
(* never await, so the event loop runs each one to completion: a handler   *)
(* is one step.  ReturnResponse is the response leaving the server.        *)
(***************************************************************************)
\* the per-hook outcomes for n configured hooks: nothing runs after the first
\* hook that does not exit 0
HookEnvs(n) ==
    { o \in [1..MaxHooks -> HandlerHookOutcomes] :
        \A i \in 1..MaxHooks :
            (i > n \/ \E j \in 1..(i - 1) : o[j].kind # "ok") => o[i] = HookQuiet }

\* the outcomes to draw for an external step: all of them when the handler
\* uses the step under the outcomes e drawn so far, the default otherwise
Draw(step, all, ip, args, cwd, e) ==
    IF step \in handle_git(branch_registry, GITHUB_PAT, PRE_PUSH_HOOKS, askpass_exists,
                           ip, args, cwd, e).used
    THEN all ELSE { DefaultEnv[step] }

DispatcherInit ==
    /\ branch_registry = [ip \in {} |-> MAIN]
    /\ GITHUB_PAT \in BOOLEAN
    /\ PRE_PUSH_HOOKS \in HookConfigs
    /\ askpass_exists = FALSE
    /\ last = None

\* POST /register?branch=...
register_pod(ip, branch) ==
    /\ last = None
    /\ branch_registry' =
           [a \in DOMAIN branch_registry \cup { ip } |->
               IF a = ip THEN branch ELSE branch_registry[a]]
    /\ last' = Some([endpoint |-> "register", ip |-> ip,
                     response |-> [status |-> "registered", ip |-> ip, branch |-> branch]])
    /\ UNCHANGED <<GITHUB_PAT, PRE_PUSH_HOOKS, askpass_exists, pvars, lvars>>

\* mutant: deregistering one address empties the registry
deregister_pod_all(ip) ==
    /\ last = None
    /\ branch_registry' = [a \in {} |-> MAIN]
    /\ last' = Some([endpoint |-> "deregister", ip |-> ip,
                     response |->
                         [status |-> IF ip \in DOMAIN branch_registry
                                     THEN "deregistered" ELSE "not_found",
                          ip |-> ip]])
    /\ UNCHANGED <<GITHUB_PAT, PRE_PUSH_HOOKS, askpass_exists, pvars, lvars>>

\* DELETE /register
deregister_pod(ip) ==
    /\ last = None
    /\ branch_registry' =
           [a \in DOMAIN branch_registry \ { ip } |-> branch_registry[a]]
    /\ last' = Some([endpoint |-> "deregister", ip |-> ip,
                     response |->
                         [status |-> IF ip \in DOMAIN branch_registry
                                     THEN "deregistered" ELSE "not_found",
                          ip |-> ip]])
    /\ UNCHANGED <<GITHUB_PAT, PRE_PUSH_HOOKS, askpass_exists, pvars, lvars>>

\* POST /git
HandleGit(ip, args, cwd) ==
    /\ last = None
    /\ \E probe \in Draw("probe", ProbeOutcomes, ip, args, cwd, DefaultEnv) :
       \E hooks \in Draw("hooks", HookEnvs(Len(PRE_PUSH_HOOKS)), ip, args, cwd,
                         [DefaultEnv EXCEPT !.probe = probe]) :
       \E helper \in Draw("helper", HelperOutcomes, ip, args, cwd,
                          [DefaultEnv EXCEPT !.probe = probe, !.hooks = hooks]) :
       \E tool \in Draw("tool", ToolOutcomes, ip, args, cwd,
                        [DefaultEnv EXCEPT !.probe = probe, !.hooks = hooks,
                                           !.helper = helper]) :
         LET e == [probe |-> probe, hooks |-> hooks, helper |-> helper, tool |-> tool]
             r == handle_git(branch_registry, GITHUB_PAT, PRE_PUSH_HOOKS,
                             askpass_exists, ip, args, cwd, e)
         IN /\ last' = Some(r @@ [env |-> e])
            /\ askpass_exists' = r.exists
    /\ UNCHANGED <<branch_registry, GITHUB_PAT, PRE_PUSH_HOOKS, pvars, lvars>>

\* the response has been returned to the client
ReturnResponse ==
    /\ last # None
    /\ last' = None
    /\ UNCHANGED <<branch_registry, GITHUB_PAT, PRE_PUSH_HOOKS, askpass_exists, pvars, lvars>>

DispatcherNext ==
    \/ \E ip \in IPs, branch \in Branches : register_pod(ip, branch)
    \/ \E ip \in IPs : deregister_pod(ip)
    \/ \E ip \in IPs, args \in Argvs, cwd \in Cwds : HandleGit(ip, args, cwd)
    \/ ReturnResponse

Init ==
    /\ DispatcherInit
    /\ llm_guard_available = FALSE
    /\ audit_log = <<>>
    /\ flow = None
    /\ NoTasks

Spec == Init /\ [][DispatcherNext]_vars

(***************************************************************************)
(* Properties of the dispatcher                                            *)
(***************************************************************************)
\* a /git request has been handled and its response is being returned
GitAnswered == last # None /\ last[1].endpoint = "git"

\* some subprocess of the given kind was started for the request g
Started(g, kind) == \E i \in 1..Len(g.procs) : g.procs[i].kind = kind

\* the indices of the tokens of args that do not begin with '-'
NonFlags(args) == { i \in 1..Len(args) : Len(args[i]) = 0 \/ args[i][1] # "-" }

\* the subcommand as git reads it: the token at the least non-flag index
IsSubcommand(args, names) ==
    /\ NonFlags(args) # {}
    /\ \E i \in NonFlags(args) : (\A j \in NonFlags(args) : i <= j) /\ args[i] \in names

\* the tokens git reads as refspecs written local:remote, and their remote halves
ColonTokens(args) ==
    { i \in NonFlags(args) : \E k \in 1..Len(args[i]) : args[i][k] = ":" }
RemoteHalf(tok) ==
    LET k == CHOOSE n \in 1..Len(tok) : tok[n] = ":" /\ \A m \in 1..(n - 1) : tok[m] # ":"
    IN [i \in 1..(Len(tok) - k) |-> tok[k + i]]

\* some hook that was run did not exit 0
SomeHookFailed(g) ==
    \E i \in 1..Len(g.procs) :
        g.procs[i].kind = "hook" /\ g.env.hooks[g.procs[i].n].kind # "ok"

\* C1: a /git request from an address that is not in the registry is answered
\* with HTTP 403, without the exit-code header, and starts no subprocess.
C1_UnregisteredNeverExecutes ==
    (GitAnswered /\ last[1].ip \notin DOMAIN branch_registry) =>
        /\ last[1].response.status = 403
        /\ last[1].response.exit_code = None
        /\ last[1].procs = <<>>

\* C1 witness: another address is registered, and the unregistered caller of a
\* push gets 403
C1_Witness ==
    /\ GitAnswered
    /\ last[1].ip \notin DOMAIN branch_registry
    /\ DOMAIN branch_registry # {}
    /\ IsSubcommand(last[1].args, { <<"push">> })
    /\ last[1].response.status = 403

\* C2 as stated: a push never starts the tool if the observed branch is not the
\* assigned one (a failed probe included), or some local:remote token has a
\* remote half different from the assigned branch, or a hook failed.
C2_Original ==
    (/\ GitAnswered
     /\ last[1].ip \in DOMAIN branch_registry
     /\ IsSubcommand(last[1].args, { <<"push">> })
     /\ \/ last[1].env.probe # Some(branch_registry[last[1].ip])
        \/ \E i \in ColonTokens(last[1].args) :
               RemoteHalf(last[1].args[i]) # branch_registry[last[1].ip]
        \/ SomeHookFailed(last[1]))
    => ~Started(last[1], "tool")

\* C2 amended: as C2, for the local:remote tokens whose remote half is not
\* empty; the push is then denied with exit code 1.
C2_PushGuards ==
    (/\ GitAnswered
     /\ last[1].ip \in DOMAIN branch_registry
     /\ IsSubcommand(last[1].args, { <<"push">> })
     /\ \/ last[1].env.probe # Some(branch_registry[last[1].ip])
        \/ \E i \in ColonTokens(last[1].args) :
               /\ RemoteHalf(last[1].args[i]) # <<>>
               /\ RemoteHalf(last[1].args[i]) # branch_registry[last[1].ip]
        \/ SomeHookFailed(last[1]))
    => /\ ~Started(last[1], "tool")
       /\ last[1].response.exit_code = Some(1)

\* C2 witness: on the assigned branch, the second refspec of a push names
\* another remote branch and the push is denied
C2_Witness ==
    /\ GitAnswered
    /\ last[1].ip \in DOMAIN branch_registry
    /\ last[1].env.probe = Some(branch_registry[last[1].ip])
    /\ Cardinality(ColonTokens(last[1].args)) = 2
    /\ last[1].response.body = "push_refspec_denied"

\* the branches a push names as its remote destinations: the positional
\* tokens after the repository, by their remote half when written
\* local:remote and by their own name otherwise
PushDestinations(args) ==
    LET sub == CHOOSE i \in NonFlags(args) : \A j \in NonFlags(args) : i <= j
        pos == { i \in NonFlags(args) : i > sub }
        repo == CHOOSE i \in pos : \A j \in pos : i <= j
    IN { IF i \in ColonTokens(args) THEN RemoteHalf(args[i]) ELSE args[i] :
           i \in { j \in pos : j > repo } } \ { <<>> }

\* C3: every push that starts the tool names only the assigned branch as a
\* destination, and a push that names another destination is denied with
\* exit code 1.
C3_PushOnlyToAssigned ==
    (/\ GitAnswered
     /\ last[1].ip \in DOMAIN branch_registry
     /\ IsSubcommand(last[1].args, { <<"push">> })
     /\ \E d \in PushDestinations(last[1].args) : d # branch_registry[last[1].ip])
    => /\ ~Started(last[1], "tool")
       /\ last[1].response.exit_code = Some(1)

\* p is root or a path below it
IsUnder(p, root) == p = root \/ StartsWith(p, root \o <<"/">>)

\* C4: every subprocess of a /git request runs in the translation of the
\* request's cwd, at or below WORKSPACE_ROOT/assigned_branch; a request whose
\* cwd does not translate is denied with exit code 1 and starts no subprocess.
C4_SubprocessesInBranchTree ==
    (GitAnswered /\ last[1].ip \in DOMAIN branch_registry) =>
        LET t == translate_cwd(last[1].cwd, branch_registry[last[1].ip]) IN
        /\ \A i \in 1..Len(last[1].procs) :
               /\ t.ok
               /\ last[1].procs[i].cwd = t.path
               /\ IsUnder(last[1].procs[i].cwd,
                          WORKSPACE_ROOT \o <<"/">> \o branch_registry[last[1].ip])
        /\ ~t.ok => /\ last[1].procs = <<>>
                    /\ last[1].response.exit_code = Some(1)

\* C5: when a /git response is returned, /tmp/git-askpass.sh does not exist.
C5_NoHelperFileAtResponse == GitAnswered => ~askpass_exists

\* C10: a merge, rebase or cherry-pick starts the tool only if the probe saw
\* the assigned branch; otherwise it is denied with exit code 1 and the tool
\* is not started.
C10_MergeOnlyOnAssigned ==
    (/\ GitAnswered
     /\ last[1].ip \in DOMAIN branch_registry
     /\ IsSubcommand(last[1].args,
                     { <<"merge">>, <<"rebase">>, <<"cherry", "-", "pick">> })
     /\ last[1].env.probe # Some(branch_registry[last[1].ip]))
    => /\ ~Started(last[1], "tool")
       /\ last[1].response.status = 200
       /\ last[1].response.exit_code = Some(1)

\* C10 witness: a merge whose branch probe failed is denied
C10_Witness ==
    /\ GitAnswered
    /\ last[1].ip \in DOMAIN branch_registry
    /\ IsSubcommand(last[1].args, { <<"merge">> })
    /\ last[1].env.probe = None
    /\ Started(last[1], "probe")
    /\ last[1].response.exit_code = Some(1)

(***************************************************************************)
(* classify_command on its own: the argv is drawn at the start and         *)
(* classified in one step                                                  *)
(***************************************************************************)
MaxClassifyArgs == 2

ClassifyTokens ==
    ALLOWLIST_LOCAL \cup ALLOWLIST_BRANCH \cup ALLOWLIST_MERGE
    \cup ALLOWLIST_REMOTE_READ \cup ALLOWLIST_REMOTE_WRITE \cup DENYLIST_KEYS
    \cup { <<>>, <<"-">>, FLAG, <<"-", "-">>, <<"-", "-", "force">>, <<"gc">>,
           <<"cherry">>, <<"Push">>, <<"HEAD", ":", "main">>, MAIN }

ClassifyArgvs ==
    UNION { [1..n -> ClassifyTokens] : n \in 0..MaxClassifyArgs }

ClassifyInit ==
    /\ branch_registry = [ip \in {} |-> MAIN]
    /\ GITHUB_PAT = FALSE
    /\ PRE_PUSH_HOOKS = <<>>
    /\ askpass_exists = FALSE
    /\ last \in { Some([endpoint |-> "argv", args |-> a]) : a \in ClassifyArgvs }
    /\ llm_guard_available = FALSE
    /\ audit_log = <<>>
    /\ flow = None
    /\ NoTasks

Classify ==
    /\ last # None
    /\ last[1].endpoint = "argv"
    /\ last' = Some([endpoint |-> "classified", args |-> last[1].args,
                     category |-> classify_command(last[1].args).category,
                     deny_message |-> classify_command(last[1].args).deny_message])
    /\ UNCHANGED <<branch_registry, GITHUB_PAT, PRE_PUSH_HOOKS, askpass_exists, pvars, lvars>>

ClassifySpec == ClassifyInit /\ [][Classify]_vars

Classified == last # None /\ last[1].endpoint = "classified"

\* the category a subcommand token belongs to by the tables
TableCategories(tok) ==
    { c \in Categories :
        \/ c = "denied" /\ tok \in DENYLIST_KEYS
        \/ c = "local" /\ tok \in ALLOWLIST_LOCAL
        \/ c = "branch" /\ tok \in ALLOWLIST_BRANCH
        \/ c = "merge" /\ tok \in ALLOWLIST_MERGE
        \/ c = "remote_read" /\ tok \in ALLOWLIST_REMOTE_READ
        \/ c = "remote_write" /\ tok \in ALLOWLIST_REMOTE_WRITE }

\* C9: classify_command returns one of the seven categories; it is the one
\* table that holds the first token not beginning with '-', no token is in
\* two tables, and the result is unknown when there is no such token or it is
\* in no table; the message is present and non-empty exactly for denied.
C9_ClassificationTotal ==
    Classified =>
        LET args == last[1].args
            cat == last[1].category
            msg == last[1].deny_message
        IN /\ cat \in Categories
           /\ IF NonFlags(args) = {} THEN cat = "unknown"
              ELSE LET i == CHOOSE k \in NonFlags(args) : \A j \in NonFlags(args) : k <= j
                   IN /\ Cardinality(TableCategories(args[i])) <= 1
                      /\ TableCategories(args[i]) = {} => cat = "unknown"
                      /\ TableCategories(args[i]) # {} => cat \in TableCategories(args[i])
           /\ (cat = "denied") <=> (msg # None)
           /\ msg # None => msg[1] # <<>>

\* C9 witness: flags come first and the first other token is a denied
\* subcommand
C9_Witness ==
    /\ Classified
    /\ Len(last[1].args) = 2
    /\ 1 \notin NonFlags(last[1].args)
    /\ last[1].category = "denied"
    /\ last[1].deny_message # None

(***************************************************************************)
(* secret_scanner.py: tables                                               *)
(*                                                                         *)
(* Host names are strings with '.' as a piece of its own.  A request path  *)
(* is the sequence of its characters, as re.match reads it: "/repos" is    *)
(* <<"/", "r", "e", "p", "o", "s">>.  A character outside ASCII is written *)
(* as its decimal character reference, Chr(1635) = "&#1635;" for U+0663.   *)
(* A pattern is the list of its elements, a literal being one element per  *)
(* character.                                                              *)
(***************************************************************************)
BLOCKED_DOMAINS ==
    { <<"pastebin", ".", "com">>, <<"paste", ".", "ee">>, <<"hastebin", ".", "com">>,
      <<"dpaste", ".", "org">>, <<"file", ".", "io">>, <<"transfer", ".", "sh">>,
      <<"0x0", ".", "st">>, <<"ix", ".", "io">>, <<"sprunge", ".", "us">>,
      <<"termbin", ".", "com">> }

API_HOSTS == { <<"api", ".", "github", ".", "com">>, <<"github", ".", "com">> }

\* the character with code point n, for n > 127
Chr(n) == "&#" \o ToString(n) \o ";"

\* the code points of the digit zero of every script but ASCII (Unicode
\* 14.0, general category Nd); the digits one to nine follow each of them
NdZeros ==
    { 1632, 1776, 1984, 2406, 2534, 2662, 2790, 2918, 3046, 3174,
      3302, 3430, 3558, 3664, 3792, 3872, 4160, 4240, 6112, 6160,
      6470, 6608, 6784, 6800, 6992, 7088, 7232, 7248, 42528, 43216,
      43264, 43472, 43504, 43600, 44016, 65296, 66720, 68912, 69734, 69872,
      69942, 70096, 70384, 70736, 70864, 71248, 71360, 71472, 71904, 72016,
      72784, 73040, 73120, 92768, 92864, 93008, 120782, 120792, 120802, 120812,
      120822, 123200, 123632, 125264, 130032 }

\* the characters \d matches: the patterns are str patterns compiled without
\* re.ASCII, so every decimal digit of Unicode is one
Digits ==
    { "0", "1", "2", "3", "4", "5", "6", "7", "8", "9" }
    \cup { Chr(z + k) : z \in NdZeros, k \in 0..9 }

\* the words of the patterns and of the paths, character by character
W_repos == <<"r", "e", "p", "o", "s">>
W_orgs == <<"o", "r", "g", "s">>
W_user == <<"u", "s", "e", "r">>
W_pulls == <<"p", "u", "l", "l", "s">>
W_merge == <<"m", "e", "r", "g", "e">>
W_actions == <<"a", "c", "t", "i", "o", "n", "s">>
W_secrets == <<"s", "e", "c", "r", "e", "t", "s">>
W_collaborators == <<"c", "o", "l", "l", "a", "b", "o", "r", "a", "t", "o", "r", "s">>
W_hooks == <<"h", "o", "o", "k", "s">>
W_branches == <<"b", "r", "a", "n", "c", "h", "e", "s">>
W_protection == <<"p", "r", "o", "t", "e", "c", "t", "i", "o", "n">>

\* pattern elements: a literal character, [^/]+, \d+, .* and $
Lit(x) == [t |-> "lit", p |-> x]
SEG == [t |-> "notslash+", p |-> ""]
NUM == [t |-> "digits+", p |-> ""]
ANY == [t |-> "any*", p |-> ""]
EOL == [t |-> "end", p |-> ""]
\* the elements of '/' followed by the literal word w
Word(w) == <<Lit("/")>> \o [k \in 1..Len(w) |-> Lit(w[k])]
\* /[^/]+
SLSEG == <<Lit("/"), SEG>>
\* /repos/[^/]+/[^/]+
REPO == Word(W_repos) \o SLSEG \o SLSEG

GITHUB_API_BLOCKED_PATTERNS ==
    << <<"PUT", REPO \o Word(W_pulls) \o <<Lit("/"), NUM>> \o Word(W_merge)>>,
       <<"DELETE", Word(W_repos) \o <<Lit("/"), ANY>>>>,
       <<"DELETE", Word(W_orgs) \o <<Lit("/"), ANY>>>>,
       <<"DELETE", Word(W_user) \o <<Lit("/"), ANY>>>>,
       <<"GET", REPO \o Word(W_actions) \o Word(W_secrets) \o <<ANY>>>>,
       <<"GET", Word(W_orgs) \o SLSEG \o Word(W_actions) \o Word(W_secrets) \o <<ANY>>>>,
       <<"PATCH", REPO \o <<EOL>>>>,
       <<"PUT", REPO \o Word(W_collaborators) \o <<ANY>>>>,
       <<"POST", REPO \o Word(W_hooks)>>,
       <<"PATCH", REPO \o Word(W_hooks) \o <<Lit("/"), NUM>>>>,
       <<"PUT", REPO \o Word(W_branches) \o SLSEG \o Word(W_protection)>>,
       <<"DELETE", REPO \o Word(W_branches) \o SLSEG \o Word(W_protection)>> >>

\* re.match: the elements of pat from index i on match the characters of s
\* from position j on, up to some position (the match is anchored at the
\* start only)
RECURSIVE MatchFrom(_, _, _, _)
MatchFrom(pat, i, s, j) ==
    IF i > Len(pat) THEN TRUE
    ELSE IF pat[i].t = "lit"
    THEN j <= Len(s) /\ s[j] = pat[i].p /\ MatchFrom(pat, i + 1, s, j + 1)
    ELSE IF pat[i].t = "notslash+"
    THEN \E k \in (j + 1)..(Len(s) + 1) :
             /\ \A m \in j..(k - 1) : s[m] # "/"
             /\ MatchFrom(pat, i + 1, s, k)
    ELSE IF pat[i].t = "digits+"
    THEN \E k \in (j + 1)..(Len(s) + 1) :
             /\ \A m \in j..(k - 1) : s[m] \in Digits
             /\ MatchFrom(pat, i + 1, s, k)
    ELSE IF pat[i].t = "any*"
    THEN \E k \in j..(Len(s) + 1) : MatchFrom(pat, i + 1, s, k)
    ELSE j = Len(s) + 1 /\ MatchFrom(pat, i + 1, s, j)

re_match(pat, s) == MatchFrom(pat, 1, s, 1)

MIN_SCAN_LENGTH == 10
URL_SCAN_THRESHOLD == 100

(***************************************************************************)
(* SecretScanner                                                           *)
(***************************************************************************)
\* mutant: any answer of the health path counts as available
check_llm_guard_any_status(health) == health # "error"

\* _check_llm_guard: the new value of llm_guard_available; health is the
\* status of GET /healthz, or "error" when the call raises
check_llm_guard(health) == health = "200"

\* mutant: a scan call that fails counts as a detection
scan_result_closed(scan) ==
    IF scan.kind = "error" \/ scan.status # 200
    THEN [has_secrets |-> TRUE, detected |-> <<"scanner_unavailable">>]
    ELSE IF ~scan.is_valid
    THEN [has_secrets |-> TRUE,
          detected |-> [i \in 1..Len(SelectSeq(scan.scanners, LAMBDA x : x.score < 10)) |->
                           SelectSeq(scan.scanners, LAMBDA x : x.score < 10)[i].name]]
    ELSE [has_secrets |-> FALSE, detected |-> <<>>]

\* lines 101-126: the result of the POST /analyze/prompt; scores are in tenths
scan_result(scan) ==
    IF scan.kind = "error" THEN [has_secrets |-> FALSE, detected |-> <<>>]
    ELSE IF scan.status # 200 THEN [has_secrets |-> FALSE, detected |-> <<>>]
    ELSE IF ~scan.is_valid
    THEN [has_secrets |-> TRUE,
          detected |-> [i \in 1..Len(SelectSeq(scan.scanners, LAMBDA x : x.score < 10)) |->
                           SelectSeq(scan.scanners, LAMBDA x : x.score < 10)[i].name]]
    ELSE [has_secrets |-> FALSE, detected |-> <<>>]

\* mutant: a scan call that fails clears the flag
scan_for_secrets_reset(text_len, available, health, scan) ==
    IF text_len = 0 \/ text_len < MIN_SCAN_LENGTH
    THEN [has_secrets |-> FALSE, detected |-> <<>>, available |-> available,
          calls |-> <<>>]
    ELSE IF ~available /\ ~check_llm_guard(health)
    THEN [has_secrets |-> TRUE, detected |-> <<"scanner_unavailable">>,
          available |-> FALSE, calls |-> <<[call |-> "healthz", ok |-> FALSE]>>]
    ELSE [has_secrets |-> scan_result(scan).has_secrets,
          detected |-> scan_result(scan).detected,
          available |-> scan.kind = "response" /\ scan.status = 200,
          calls |-> (IF available THEN <<>> ELSE <<[call |-> "healthz", ok |-> TRUE]>>)
                    \o <<[call |-> "analyze",
                          ok |-> scan.kind = "response" /\ scan.status = 200]>>]

\* _scan_for_secrets on a text of the given length: the result, the flag
\* afterwards and the calls made to the detector
scan_for_secrets(text_len, available, health, scan) ==
    IF text_len = 0 \/ text_len < MIN_SCAN_LENGTH
    THEN [has_secrets |-> FALSE, detected |-> <<>>, available |-> available,
          calls |-> <<>>]
    ELSE IF ~available /\ ~check_llm_guard(health)
    THEN [has_secrets |-> TRUE, detected |-> <<"scanner_unavailable">>,
          available |-> FALSE, calls |-> <<[call |-> "healthz", ok |-> FALSE]>>]
    ELSE [has_secrets |-> scan_result(scan).has_secrets,
          detected |-> scan_result(scan).detected,
          available |-> TRUE,
          calls |-> (IF available THEN <<>> ELSE <<[call |-> "healthz", ok |-> TRUE]>>)
                    \o <<[call |-> "analyze",
                          ok |-> scan.kind = "response" /\ scan.status = 200]>>]

\* mutant: the reason of the last matching entry
check_github_api_policy_last(host, method, path) ==
    LET hits == { i \in 1..Len(GITHUB_API_BLOCKED_PATTERNS) :
                    /\ method = GITHUB_API_BLOCKED_PATTERNS[i][1]
                    /\ re_match(GITHUB_API_BLOCKED_PATTERNS[i][2], path) }
    IN IF host \notin API_HOSTS \/ hits = {} THEN None
       ELSE Some(<<"github_api_blocked", CHOOSE i \in hits : \A j \in hits : j <= i>>)

\* _check_github_api_policy: the reason names the entry by its index in the list
check_github_api_policy(host, method, path) ==
    LET hits == { i \in 1..Len(GITHUB_API_BLOCKED_PATTERNS) :
                    /\ method = GITHUB_API_BLOCKED_PATTERNS[i][1]
                    /\ re_match(GITHUB_API_BLOCKED_PATTERNS[i][2], path) }
    IN IF host \notin API_HOSTS \/ hits = {} THEN None
       ELSE Some(<<"github_api_blocked", CHOOSE i \in hits : \A j \in hits : i <= j>>)

\* mutant: only a host equal to a blocklist entry is blocked
blocked_domain_exact(host) ==
    LET hits == { d \in BLOCKED_DOMAINS : host = d }
    IN IF hits = {} THEN None ELSE Some(<<"blocked_domain", CHOOSE d \in hits : TRUE>>)

\* lines 194-202: the blocklist entry that the host equals or ends with
blocked_domain(host) ==
    LET hits == { d \in BLOCKED_DOMAINS : host = d \/ EndsWith(host, <<".">> \o d) }
    IN IF hits = {} THEN None ELSE Some(<<"blocked_domain", CHOOSE d \in hits : TRUE>>)

\* _log_request: the log file afterwards; write is "ok", or "error" when
\* makedirs, open or write raises (the error is swallowed)
log_request(log, entry, write) ==
    IF write = "ok" THEN Append(log, entry) ELSE log

\* mutant: a blocking branch without its return falls through to the final
\* _log_request(flow, blocked=False)
Handled_no_return(response, blocked, reason, detected, available, calls, used) ==
    [response |-> response,
     log_calls |-> <<[blocked |-> blocked, reason |-> reason,
                      detected_secrets |-> detected]>>
                   \o (IF blocked
                       THEN <<[blocked |-> FALSE, reason |-> None,
                               detected_secrets |-> None]>>
                       ELSE <<>>),
     available |-> available, calls |-> calls, used |-> used \cup { "log_write" }]

\* the outcome of request(flow): the response set on the flow (None when it
\* is left alone), the calls of _log_request, the flag afterwards, the calls
\* made to the detector and the external steps whose outcome was used
Handled(response, blocked, reason, detected, available, calls, used) ==
    [response |-> response,
     log_calls |-> <<[blocked |-> blocked, reason |-> reason,
                      detected_secrets |-> detected]>>,
     available |-> available, calls |-> calls, used |-> used \cup { "log_write" }]

request(available, host, method, path, body_len, url_len, e) ==
    LET github_block_reason == check_github_api_policy(host, method, path)
        domain == blocked_domain(host)
        b == scan_for_secrets(body_len, available, e.health1, e.scan1)
        bused == IF body_len > 0 /\ body_len >= MIN_SCAN_LENGTH
                 THEN (IF available THEN {} ELSE { "health1" })
                      \cup (IF b.available THEN { "scan1" } ELSE {})
                 ELSE {}
        avail1 == IF body_len > 0 THEN b.available ELSE available
        bcalls == IF body_len > 0 THEN b.calls ELSE <<>>
        u == scan_for_secrets(url_len, avail1, e.health2, e.scan2)
        uused == bused \cup (IF avail1 THEN {} ELSE { "health2" })
                       \cup (IF u.available THEN { "scan2" } ELSE {})
    IN
    IF github_block_reason # None
    THEN Handled(Some(403), TRUE, github_block_reason, None, available, <<>>, {})
    ELSE IF domain # None
    THEN Handled(Some(403), TRUE, domain, None, available, <<>>, {})
    ELSE IF body_len > 0 /\ b.has_secrets
    THEN Handled(Some(403), TRUE, Some(<<"secrets_detected">>), Some(b.detected),
                 b.available, b.calls, bused)
    ELSE IF url_len > URL_SCAN_THRESHOLD /\ u.has_secrets
    THEN Handled(Some(403), TRUE, Some(<<"secrets_in_url">>), Some(u.detected),
                 u.available, bcalls \o u.calls, uused)
    ELSE IF url_len > URL_SCAN_THRESHOLD
    THEN Handled(None, FALSE, None, None, u.available, bcalls \o u.calls, uused)
    ELSE Handled(None, FALSE, None, None, avail1, bcalls, bused)

(***************************************************************************)
(* The proxy addon as a state machine: mitmproxy calls request(flow) for    *)
(* each intercepted flow; FlowDone is the flow leaving the addon.          *)
(***************************************************************************)
MaxLog == 2

Hosts ==
    { <<"api", ".", "github", ".", "com">>, <<"github", ".", "com">>,
      <<"pastebin", ".", "com">>, <<"x", ".", "pastebin", ".", "com">>,
      <<"example", ".", "com">> }

Methods == { "GET", "PUT", "DELETE", "PATCH" }

\* the paths of the flows: the repository is a/w, the branch m; the first
\* path carries a query string and the number of its pull request ends with
\* U+0663 ARABIC-INDIC DIGIT THREE
REPO_PATH == <<"/">> \o W_repos \o <<"/", "a", "/", "w">>
ReqPaths ==
    { REPO_PATH \o <<"/">> \o W_pulls \o <<"/", "7", Chr(1635), "/">> \o W_merge
          \o <<"?", "s">>,
      REPO_PATH \o <<"/">> \o W_branches \o <<"/", "m", "/">> \o W_protection,
      REPO_PATH,
      <<"/", "x">> \o REPO_PATH }

\* lengths of the request body text and of the pretty URL
BodyLens == { 0, 5, 20 }
UrlLens == { 60, 150 }

HealthOutcomes == { "200", "503", "error" }

ScanOutcomes ==
    { [kind |-> "error", status |-> 0, is_valid |-> TRUE, scanners |-> <<>>],
      [kind |-> "response", status |-> 500, is_valid |-> TRUE, scanners |-> <<>>],
      [kind |-> "response", status |-> 200, is_valid |-> TRUE, scanners |-> <<>>],
      [kind |-> "response", status |-> 200, is_valid |-> FALSE,
       scanners |-> <<[name |-> "Secrets", score |-> 0],
                      [name |-> "BanSubstrings", score |-> 10]>>] }

WriteOutcomes == { "ok", "error" }

DefaultProxyEnv ==
    [health1 |-> "200", scan1 |-> [kind |-> "response", status |-> 200,
                                   is_valid |-> TRUE, scanners |-> <<>>],
     health2 |-> "200", scan2 |-> [kind |-> "response", status |-> 200,
                                   is_valid |-> TRUE, scanners |-> <<>>],
     log_write |-> "ok"]

\* the outcomes to draw for an external step of request(flow)
DrawProxy(step, all, host, method, path, body_len, url_len, e) ==
    IF step \in request(llm_guard_available, host, method, path, body_len, url_len, e).used
    THEN all ELSE { DefaultProxyEnv[step] }

\* every call of _log_request in turn
RECURSIVE log_all(_, _, _)
log_all(log, calls, write) ==
    IF Len(calls) = 0 THEN log
    ELSE log_all(log_request(log, Head(calls), write), Tail(calls), write)

\* SecretScanner.__init__: the flag is what the first health probe found
ProxyInit ==
    /\ llm_guard_available \in { check_llm_guard(h) : h \in HealthOutcomes }
    /\ audit_log = <<>>
    /\ flow = None
    /\ NoTasks
    /\ branch_registry = [ip \in {} |-> MAIN]
    /\ GITHUB_PAT = FALSE
    /\ PRE_PUSH_HOOKS = <<>>
    /\ askpass_exists = FALSE
    /\ last = None

\* SecretScanner.request
Request(host, method, path, body_len, url_len) ==
    /\ flow = None
    /\ Len(audit_log) < MaxLog
    /\ \E h1 \in DrawProxy("health1", HealthOutcomes, host, method, path, body_len,
                           url_len, DefaultProxyEnv) :
       \E s1 \in DrawProxy("scan1", ScanOutcomes, host, method, path, body_len, url_len,
                           [DefaultProxyEnv EXCEPT !.health1 = h1]) :
       \E h2 \in DrawProxy("health2", HealthOutcomes, host, method, path, body_len,
                           url_len, [DefaultProxyEnv EXCEPT !.health1 = h1, !.scan1 = s1]) :
       \E s2 \in DrawProxy("scan2", ScanOutcomes, host, method, path, body_len, url_len,
                           [DefaultProxyEnv EXCEPT !.health1 = h1, !.scan1 = s1,
                                                   !.health2 = h2]) :
       \E w \in WriteOutcomes :
         LET e == [health1 |-> h1, scan1 |-> s1, health2 |-> h2, scan2 |-> s2,
                   log_write |-> w]
             r == request(llm_guard_available, host, method, path, body_len, url_len, e)
         IN /\ flow' = Some([host |-> host, method |-> method, path |-> path,
                             body_len |-> body_len, url_len |-> url_len,
                             available_before |-> llm_guard_available,
                             log_before |-> Len(audit_log),
                             response |-> r.response, log_calls |-> r.log_calls,
                             calls |-> r.calls, env |-> e])
            /\ audit_log' = log_all(audit_log, r.log_calls, w)
            /\ llm_guard_available' = r.available
    /\ UNCHANGED dvars

\* the flow goes on to the upstream server, or the 403 to the client
FlowDone ==
    /\ flow # None
    /\ flow' = None
    /\ UNCHANGED <<llm_guard_available, audit_log, dvars>>

ProxyNext ==
    \/ \E host \in Hosts, method \in Methods, path \in ReqPaths,
          body_len \in BodyLens, url_len \in UrlLens :
          Request(host, method, path, body_len, url_len)
    \/ FlowDone

ProxySpec == ProxyInit /\ [][ProxyNext]_vars

(***************************************************************************)
(* Properties of the proxy                                                 *)
(***************************************************************************)
FlowHandled == flow # None

\* the entries of the API policy that the flow's method and path match
MatchingEntries(f) ==
    { i \in 1..Len(GITHUB_API_BLOCKED_PATTERNS) :
        /\ f.method = GITHUB_API_BLOCKED_PATTERNS[i][1]
        /\ MatchFrom(GITHUB_API_BLOCKED_PATTERNS[i][2], 1, f.path, 1) }

\* the flow is not decided by the API policy nor by the host blocklist
PassesPolicyAndBlocklist(f) ==
    /\ ~(f.host \in API_HOSTS /\ MatchingEntries(f) # {})
    /\ \A d \in BLOCKED_DOMAINS :
           /\ f.host # d
           /\ ~(Len(f.host) > Len(d) + 1
                /\ SubSeq(f.host, Len(f.host) - Len(d), Len(f.host)) = <<".">> \o d)

\* a call to the detector got no 200 answer
DetectorUnreachable(f) == \E i \in 1..Len(f.calls) : ~f.calls[i].ok

\* C6: a request that passes the API policy and the blocklist and has a
\* non-empty body or a URL of more than 100 characters is blocked with 403
\* whenever a health probe or a scan call of the detector fails.
C6_UnavailableNeverAllows ==
    (/\ FlowHandled
     /\ PassesPolicyAndBlocklist(flow[1])
     /\ (flow[1].body_len > 0 \/ flow[1].url_len > 100)
     /\ DetectorUnreachable(flow[1]))
    => flow[1].response = Some(403)

\* C7 as stated: every path through request() appends exactly one record to
\* the audit log, and its blocked field is true exactly when the flow got a
\* 403.
C7_Original ==
    FlowHandled =>
        /\ Len(audit_log) = flow[1].log_before + 1
        /\ audit_log[Len(audit_log)].blocked <=> (flow[1].response = Some(403))

\* C7 amended: every path through request() calls _log_request exactly once,
\* with blocked true exactly when the flow got a 403; the call appends exactly
\* that one record, unless writing the file raises, and then none.
C7_OneAuditEntryPerRequest ==
    FlowHandled =>
        /\ Len(flow[1].log_calls) = 1
        /\ flow[1].log_calls[1].blocked <=> (flow[1].response = Some(403))
        /\ IF flow[1].env.log_write = "ok"
           THEN /\ Len(audit_log) = flow[1].log_before + 1
                /\ audit_log[Len(audit_log)] = flow[1].log_calls[1]
           ELSE Len(audit_log) = flow[1].log_before

\* C7 witness: a second request is blocked by the body scan and its record
\* is the second line of the log
C7_Witness ==
    /\ FlowHandled
    /\ flow[1].log_before = 1
    /\ Len(audit_log) = 2
    /\ flow[1].response = Some(403)
    /\ audit_log[2].blocked
    /\ audit_log[2].reason = Some(<<"secrets_detected">>)

\* C8: on an API host the reason handed to the audit log names the first
\* entry of the list that matches method and path; on any other host the
\* request is not blocked by the API policy.
C8_FirstMatchingPattern ==
    FlowHandled =>
        LET r == flow[1].log_calls[1].reason
            api == r # None /\ r[1][1] = "github_api_blocked"
        IN IF flow[1].host \in API_HOSTS /\ MatchingEntries(flow[1]) # {}
           THEN /\ api
                /\ r[1][2] \in MatchingEntries(flow[1])
                /\ \A j \in MatchingEntries(flow[1]) : r[1][2] <= j
                /\ flow[1].env.log_write = "ok" => audit_log[Len(audit_log)].reason = r
           ELSE ~api

\* C8 witness: a DELETE of a branch protection matches two entries and the
\* reason names the earlier one
C8_Witness ==
    /\ FlowHandled
    /\ flow[1].host \in API_HOSTS
    /\ Cardinality(MatchingEntries(flow[1])) = 2
    /\ flow[1].log_calls[1].reason = Some(<<"github_api_blocked", 2>>)
    /\ Len(audit_log) = flow[1].log_before + 1


(***************************************************************************)
(* Further properties of the dispatcher                                    *)
(***************************************************************************)
\* the handler is answering a /git request of a registered caller in the
\* next state
AnsweringRegistered ==
    /\ last' # None
    /\ last'[1].endpoint = "git"
    /\ last'[1].ip \in DOMAIN branch_registry

\* the first token of args that does not begin with '-' (there is one)
FirstNonFlag(args) ==
    args[CHOOSE i \in NonFlags(args) : \A j \in NonFlags(args) : i <= j]

\* every subcommand of the five allowlists
Allowlisted ==
    ALLOWLIST_LOCAL \cup ALLOWLIST_BRANCH \cup ALLOWLIST_MERGE
        \cup ALLOWLIST_REMOTE_READ \cup ALLOWLIST_REMOTE_WRITE

\* the message of a command line that is DENIED or UNKNOWN, None for the others
RejectionText(args) ==
    IF NonFlags(args) = {} THEN Some(UNKNOWN_MESSAGE)
    ELSE IF FirstNonFlag(args) \in DENYLIST_KEYS
    THEN Some(DENYLIST_WITH_MESSAGE(FirstNonFlag(args)))
    ELSE IF FirstNonFlag(args) \notin Allowlisted THEN Some(UNKNOWN_MESSAGE)
    ELSE None

\* C11: a request of a registered caller whose command line is empty, has
\* only flags, or has a first non-flag token that is denylisted or in no table
\* is answered with the fixed message and exit code 1, starts no subprocess
\* and leaves the helper file as it was.
C11_RejectedStartsNothing ==
    [][(AnsweringRegistered /\ RejectionText(last'[1].args) # None) =>
           /\ last'[1].response.status = 200
           /\ last'[1].response.exit_code = Some(1)
           /\ last'[1].response.text = RejectionText(last'[1].args)
           /\ last'[1].response.notice = None
           /\ last'[1].procs = <<>>
           /\ askpass_exists' = askpass_exists]_vars

\* C11 witness: with a token configured, `-f config user.email` is answered
\* with the denial message and `-f` alone with the message for unknown
\* commands, neither having started a subprocess
C11_Witness ==
    /\ GitAnswered
    /\ last[1].ip \in DOMAIN branch_registry
    /\ GITHUB_PAT
    /\ last[1].procs = <<>>
    /\ last[1].response.exit_code = Some(1)
    /\ \/ /\ last[1].args = <<FLAG, <<"config">>, <<"user", ".", "email">>>>
          /\ last[1].response.text =
                 Some(<<"yolo-cage: direct git configuration is not permitted.\nUser identity and settings are managed via deployment configuration.">>)
       \/ /\ last[1].args = <<FLAG>>
          /\ last[1].response.text = Some(UNKNOWN_MESSAGE)

\* the exit code that the tool subprocess of the request g hands back: its own
\* on exit, 1 when it timed out or could not be launched
ToolExitCode(g) == IF g.env.tool.kind = "exit" THEN g.env.tool.code ELSE 1

\* C12: a /git response has status 403 and no exit-code header exactly when
\* the caller is not registered; every response to a registered caller has
\* status 200 and the header, whose value is 1 when the request was denied
\* (the tool was not started) and when the tool timed out or could not be
\* launched, and the exit code of the tool otherwise.
C12_StatusAndExitCode ==
    GitAnswered =>
        LET g == last[1]
            registered == g.ip \in DOMAIN branch_registry
        IN /\ (g.response.status = 403) <=> ~registered
           /\ ~registered => g.response.exit_code = None
           /\ registered =>
                 /\ g.response.status = 200
                 /\ g.response.exit_code =
                        Some(IF Started(g, "tool") THEN ToolExitCode(g) ELSE 1)

\* C15: whatever fails inside a /git request of a registered caller (the
\* probe, a hook, the tool, the creation of the helper file), the request is
\* answered with status 200 and the exit-code header.
C15_AlwaysWellFormed ==
    (GitAnswered /\ last[1].ip \in DOMAIN branch_registry) =>
        /\ last[1].response.status = 200
        /\ last[1].response.exit_code # None

\* the step leaves the binding of every address other than a as it was
OthersKept(a) ==
    \A x \in (DOMAIN branch_registry \cup DOMAIN branch_registry') \ { a } :
        /\ x \in DOMAIN branch_registry
        /\ x \in DOMAIN branch_registry'
        /\ branch_registry'[x] = branch_registry[x]

\* C13: a registration binds its address to the branch given, whatever was
\* bound before; a deregistration removes the binding of its address and
\* reports not_found when there was none; neither changes another address;
\* a /git request changes no binding and is checked against the branch bound
\* to its address at that moment, and rejected with 403 when there is none.
C13_RegistryPerAddress ==
    [][last' # None =>
         LET q == last'[1] IN
         /\ q.endpoint = "register" =>
               /\ q.ip \in DOMAIN branch_registry'
               /\ branch_registry'[q.ip] = q.response.branch
               /\ q.response.status = "registered"
               /\ OthersKept(q.ip)
         /\ q.endpoint = "deregister" =>
               /\ q.ip \notin DOMAIN branch_registry'
               /\ q.response.status =
                      (IF q.ip \in DOMAIN branch_registry
                       THEN "deregistered" ELSE "not_found")
               /\ OthersKept(q.ip)
         /\ q.endpoint = "git" =>
               /\ branch_registry' = branch_registry
               /\ q.assigned = (IF q.ip \in DOMAIN branch_registry
                                THEN Some(branch_registry[q.ip]) ELSE None)
               /\ (q.response.status = 403) <=> (q.ip \notin DOMAIN branch_registry)
      ]_vars

\* C13 witness: one of two addresses has just been deregistered and the other
\* is still bound to its branch
C13_Witness ==
    /\ last # None
    /\ last[1].endpoint = "deregister"
    /\ last[1].response.status = "deregistered"
    /\ \E x \in DOMAIN branch_registry : x # last[1].ip /\ branch_registry[x] = FEATURE

\* the first token after the subcommand that does not begin with '-', None
\* if there is none
FirstPositional(args) ==
    LET sub == CHOOSE i \in NonFlags(args) : \A j \in NonFlags(args) : i <= j
        after == { i \in NonFlags(args) : i > sub }
    IN IF after = {} THEN None
       ELSE Some(args[CHOOSE i \in after : \A j \in after : i <= j])

\* C20: a checkout or switch of a registered caller whose first positional
\* argument after the subcommand is present and is not the assigned branch is
\* executed and answered with the notice naming that argument and the exit
\* code of the tool; one without such an argument, or naming the assigned
\* branch, is answered without notice.
C20_NoticeOnSwitchAway ==
    (/\ GitAnswered
     /\ last[1].ip \in DOMAIN branch_registry
     /\ IsSubcommand(last[1].args, { <<"checkout">>, <<"switch">> }))
    => LET g == last[1]
           target == FirstPositional(g.args)
       IN IF target # None /\ target[1] # g.assigned[1]
          THEN /\ g.response.notice = target
               /\ Started(g, "tool")
               /\ g.response.exit_code = Some(ToolExitCode(g))
          ELSE g.response.notice = None

(***************************************************************************)
(* translate_cwd on its own: the agent path and the branch are drawn at    *)
(* the start and Translate applies the function                            *)
(***************************************************************************)
MaxPathTail == 4

\* a str as the model writes it: no two neighbouring pieces are both runs of
\* ordinary characters
Canonical(s) ==
    \A i \in 1..(Len(s) - 1) :
        s[i] \in { "/", ".", "-", ":" } \/ s[i + 1] \in { "/", ".", "-", ":" }

PathHeads ==
    { <<>>, <<"/">>, AGENT_WORKSPACE, <<"/">> \o AGENT_WORKSPACE,
      <<"/", "home", "/", "dev">>, <<"/", "home", "/", "dev", "/", "workspaces">>,
      <<"/", "etc", "/", ".", ".">> \o AGENT_WORKSPACE }

PathTails == UNION { [1..k -> { "/", ".", "a" }] : k \in 0..MaxPathTail }

AgentPaths ==
    { q \in { h \o t : h \in PathHeads, t \in PathTails } : Canonical(q) }

PathInit ==
    /\ branch_registry = [ip \in {} |-> MAIN]
    /\ GITHUB_PAT = FALSE
    /\ PRE_PUSH_HOOKS = <<>>
    /\ askpass_exists = FALSE
    /\ last \in { Some([endpoint |-> "path", agent_cwd |-> q, branch |-> b]) :
                     q \in AgentPaths, b \in Branches }
    /\ llm_guard_available = FALSE
    /\ audit_log = <<>>
    /\ flow = None
    /\ NoTasks

Translate ==
    /\ last # None
    /\ last[1].endpoint = "path"
    /\ last' = Some([endpoint |-> "translated", agent_cwd |-> last[1].agent_cwd,
                     branch |-> last[1].branch,
                     result |-> translate_cwd(last[1].agent_cwd, last[1].branch)])
    /\ UNCHANGED <<branch_registry, GITHUB_PAT, PRE_PUSH_HOOKS, askpass_exists, pvars, lvars>>

PathSpec == PathInit /\ [][Translate]_vars

Translated == last # None /\ last[1].endpoint = "translated"

\* the path is the agent root followed by '/' and a remainder
BelowAgentRoot(path) ==
    /\ Len(path) > Len(AGENT_WORKSPACE) + 1
    /\ SubSeq(path, 1, Len(AGENT_WORKSPACE) + 1) = AGENT_WORKSPACE \o <<"/">>

\* what follows the agent root and its '/'
Remainder(path) == SubSeq(path, Len(AGENT_WORKSPACE) + 2, Len(path))

\* some segment between the '/' of the path is '..'
HasParentSegment(path) ==
    \E i \in 1..Len(Split(path, "/")) : Split(path, "/")[i] = DOTDOT

\* C14: translating the normalized path gives what translating the path
\* gives; a path whose normal form is the agent root translates to
\* WORKSPACE_ROOT/branch; one whose normal form is below the agent root and
\* has no '..' segment translates to WORKSPACE_ROOT/branch/remainder; every
\* other path fails.
C14_TranslateCases ==
    Translated =>
        LET t == last[1]
            n == normpath(t.agent_cwd)
            tree == WORKSPACE_ROOT \o <<"/">> \o t.branch
        IN /\ translate_cwd(n, t.branch) = t.result
           /\ IF n = AGENT_WORKSPACE
              THEN t.result = [ok |-> TRUE, path |-> tree]
              ELSE IF BelowAgentRoot(n) /\ ~HasParentSegment(Remainder(n))
              THEN t.result = [ok |-> TRUE, path |-> tree \o <<"/">> \o Remainder(n)]
              ELSE ~t.result.ok

(***************************************************************************)
(* handle_git step by step.  A /git request becomes a task of the event    *)
(* loop.  handle_git is `async def` and contains no await: its             *)
(* subprocess.run calls block the one thread of the loop, so a task that    *)
(* has begun runs to its response before another task begins.  The steps   *)
(* below are the points where a subprocess starts or ends; the branch the  *)
(* working tree is on and the writer of the helper file are followed       *)
(* through them.                                                           *)
(***************************************************************************)
MaxTasks == 2

LoopIP == "10.0.0.5"

\* the command lines of the tasks
LoopArgvs ==
    { <<<<"push">>>>, <<<<"fetch">>, ORIGIN>>, <<<<"config">>>>,
      <<<<"checkout">>, MAIN>>, <<<<"checkout">>, FEATURE>> }

IdleTask ==
    [pc |-> "none", args |-> <<>>, hook |-> 0, installed |-> FALSE,
     head_at_start |-> None, exit_code |-> None]

\* mutant: the handlers run on the threads of a pool, any task may take a step
may_run_threaded(ts, id) == TRUE

\* the event loop runs the task id: no other task is between its first step
\* and its response
may_run(ts, id) ==
    \A q \in DOMAIN ts \ { id } : ts[q].pc \in { "none", "queued", "done" }

TaskCategory(id) == classify_command(tasks[id].args).category

TaskAssigned == registry_get(branch_registry, LoopIP)

\* the response is returned
Finish(id, code) ==
    tasks' = [tasks EXCEPT ![id].pc = "done", ![id].exit_code = Some(code)]

\* an exception leaves the handler: the answer is a 500 with no exit-code
\* header (lines 329-335 raise the 403 of an unregistered caller the same way)
Raise(id) == tasks' = [tasks EXCEPT ![id].pc = "done"]

\* lines 432-437 and 252-262: the helper file is written when the operation
\* is a remote one and a token is configured, then the tool is started.
\* open, write and chmod (lines 255-257) come before the try: when one of
\* them raises no tool is started and the finally is not reached, so a file
\* that open created stays on disk
StartTool(id, helper) ==
    LET auth == TaskCategory(id) \in { "remote_read", "remote_write" } /\ GITHUB_PAT IN
    IF auth /\ helper = "open_error"
    THEN Raise(id) /\ UNCHANGED <<askpass_exists, askpass_writer>>
    ELSE IF auth /\ helper \in { "write_error", "chmod_error" }
    THEN Raise(id) /\ askpass_exists' = TRUE /\ askpass_writer' = id
    ELSE /\ tasks' = [tasks EXCEPT ![id].pc = "tool", ![id].installed = auth,
                                   ![id].head_at_start = Some(worktree_head)]
         /\ askpass_exists' = (auth \/ askpass_exists)
         /\ askpass_writer' = IF auth THEN id ELSE askpass_writer

LoopInit ==
    /\ branch_registry \in { [a \in D |-> b] : D \in SUBSET { LoopIP }, b \in Branches }
    /\ GITHUB_PAT \in BOOLEAN
    /\ PRE_PUSH_HOOKS \in HookConfigs
    /\ askpass_exists = FALSE
    /\ last = None
    /\ llm_guard_available = FALSE
    /\ audit_log = <<>>
    /\ flow = None
    /\ tasks = [id \in 1..MaxTasks |-> IdleTask]
    /\ worktree_head \in Branches
    /\ askpass_writer = 0

\* a POST /git arrives and waits for the loop
Receive(id, args) ==
    /\ tasks[id].pc = "none"
    /\ \A q \in 1..(id - 1) : tasks[q].pc # "none"
    /\ tasks' = [tasks EXCEPT ![id].pc = "queued", ![id].args = args]
    /\ UNCHANGED <<branch_registry, GITHUB_PAT, PRE_PUSH_HOOKS, askpass_exists, last,
                   pvars, worktree_head, askpass_writer>>

\* lines 324-378: the lookup and the classification; an unregistered caller
\* gets the 403 of the HTTPException, a denied or unknown command exit code 1;
\* a merge or a push starts the probe, the other allowed commands go on to
\* the execution, where helper is what writing the helper file does
Begin(id, helper) ==
    /\ tasks[id].pc = "queued"
    /\ may_run(tasks, id)
    /\ IF TaskAssigned = None
       THEN Raise(id) /\ UNCHANGED <<askpass_exists, askpass_writer>>
       ELSE IF TaskCategory(id) \in { "denied", "unknown" }
       THEN Finish(id, 1) /\ UNCHANGED <<askpass_exists, askpass_writer>>
       ELSE IF TaskCategory(id) \in { "merge", "remote_write" }
       THEN /\ tasks' = [tasks EXCEPT ![id].pc = "probe"]
            /\ UNCHANGED <<askpass_exists, askpass_writer>>
       ELSE StartTool(id, helper)
    /\ UNCHANGED <<branch_registry, GITHUB_PAT, PRE_PUSH_HOOKS, last, pvars, worktree_head>>

\* lines 380-428: the probe ends; ok tells whether it exited 0, and it then
\* names the branch the working tree is on
ProbeEnd(id, ok, helper) ==
    /\ tasks[id].pc = "probe"
    /\ may_run(tasks, id)
    /\ LET current == IF ok THEN Some(worktree_head) ELSE None
           assigned == TaskAssigned[1]
       IN IF \/ TaskCategory(id) = "merge" /\ merge_guard_denies(current, assigned)
             \/ TaskCategory(id) = "remote_write" /\ push_branch_denies(current, assigned)
             \/ TaskCategory(id) = "remote_write" /\ refspec_denies(tasks[id].args, assigned)
          THEN Finish(id, 1) /\ UNCHANGED <<askpass_exists, askpass_writer>>
          ELSE IF TaskCategory(id) = "remote_write" /\ Len(PRE_PUSH_HOOKS) > 0
          THEN /\ tasks' = [tasks EXCEPT ![id].pc = "hook", ![id].hook = 1]
               /\ UNCHANGED <<askpass_exists, askpass_writer>>
          ELSE StartTool(id, helper)
    /\ UNCHANGED <<branch_registry, GITHUB_PAT, PRE_PUSH_HOOKS, last, pvars, worktree_head>>

\* lines 177-199 and 422-430: the running hook ends; ok tells whether it
\* exited 0
HookEnd(id, ok, helper) ==
    /\ tasks[id].pc = "hook"
    /\ may_run(tasks, id)
    /\ IF ~ok
       THEN Finish(id, 1) /\ UNCHANGED <<askpass_exists, askpass_writer>>
       ELSE IF tasks[id].hook < Len(PRE_PUSH_HOOKS)
       THEN /\ tasks' = [tasks EXCEPT ![id].hook = @ + 1]
            /\ UNCHANGED <<askpass_exists, askpass_writer>>
       ELSE StartTool(id, helper)
    /\ UNCHANGED <<branch_registry, GITHUB_PAT, PRE_PUSH_HOOKS, last, pvars, worktree_head>>

\* lines 263-278 and 439-445: the tool ends with the exit code given; moved
\* tells whether a checkout has put the working tree on the branch it names:
\* it has when it exits 0, and it may have when it does not (git switches
\* the branch and then exits with the status of a failing post-checkout
\* hook); the finally of execute_git_with_auth removes the helper file if it
\* is there
ToolEnd(id, code, moved) ==
    /\ tasks[id].pc = "tool"
    /\ may_run(tasks, id)
    /\ IF get_git_command(tasks[id].args) = Some(<<"checkout">>)
       THEN code = 0 => moved
       ELSE ~moved
    /\ Finish(id, code)
    /\ worktree_head' = IF moved THEN tasks[id].args[2] ELSE worktree_head
    /\ IF /\ TaskCategory(id) \in { "remote_read", "remote_write" }
          /\ GITHUB_PAT /\ askpass_exists
       THEN askpass_exists' = FALSE /\ askpass_writer' = 0
       ELSE UNCHANGED <<askpass_exists, askpass_writer>>
    /\ UNCHANGED <<branch_registry, GITHUB_PAT, PRE_PUSH_HOOKS, last, pvars>>

LoopNext ==
    \E id \in 1..MaxTasks :
        \/ \E args \in LoopArgvs : Receive(id, args)
        \/ \E helper \in HelperOutcomes : Begin(id, helper)
        \/ \E ok \in BOOLEAN, helper \in HelperOutcomes : ProbeEnd(id, ok, helper)
        \/ \E ok \in BOOLEAN, helper \in HelperOutcomes : HookEnd(id, ok, helper)
        \/ \E code \in { 0, 1 }, moved \in BOOLEAN : ToolEnd(id, code, moved)

LoopSpec == LoopInit /\ [][LoopNext]_vars

\* C16: while the tool of a remote operation that wrote the helper file is
\* running, the file exists and is the one this task wrote.
C16_HelperScopedToInvocation ==
    \A id \in DOMAIN tasks :
        (tasks[id].pc = "tool" /\ tasks[id].installed) =>
            askpass_exists /\ askpass_writer = id

\* C16 witness: a fetch runs with the helper file it wrote while another
\* remote operation of the same caller has arrived and waits
C16_Witness ==
    \E id \in DOMAIN tasks, q \in DOMAIN tasks :
        /\ q # id
        /\ tasks[id].pc = "tool" /\ tasks[id].installed /\ askpass_writer = id
        /\ tasks[id].args = <<<<"fetch">>, ORIGIN>>
        /\ tasks[q].pc = "queued" /\ tasks[q].args = <<<<"push">>>>

\* C17: whatever other requests of the caller have arrived, the working tree
\* is on the assigned branch when the tool of a push is started.
C17_PushFromAssignedBranch ==
    \A id \in DOMAIN tasks :
        (/\ tasks[id].head_at_start # None
         /\ IsSubcommand(tasks[id].args, { <<"push">> }))
        => tasks[id].head_at_start = Some(branch_registry[LoopIP])

\* C17 witness: the tool of a push is running, a hook ran between the branch
\* check and its start, and a checkout of another branch arrived before the
\* push began and is still waiting
C17_Witness ==
    \E id \in DOMAIN tasks, q \in DOMAIN tasks :
        /\ q < id
        /\ tasks[id].pc = "tool" /\ tasks[id].args = <<<<"push">>>>
        /\ Len(PRE_PUSH_HOOKS) > 0
        /\ tasks[id].head_at_start = Some(branch_registry[LoopIP])
        /\ tasks[q].pc = "queued"
        /\ tasks[q].args[1] = <<"checkout">>
        /\ tasks[q].args[2] # branch_registry[LoopIP]

(***************************************************************************)
(* Order of the steps of one request, on the dispatcher machine            *)
(***************************************************************************)
\* the place of a subprocess in the order probe, hooks, tool
StepRank(proc) == IF proc.kind = "probe" THEN 1 ELSE IF proc.kind = "hook" THEN 2 ELSE 3

\* the hook commands started for the request g, in the order they were started
RECURSIVE HooksStarted(_)
HooksStarted(procs) ==
    IF procs = <<>> THEN <<>>
    ELSE (IF Head(procs).kind = "hook" THEN <<Head(procs).n>> ELSE <<>>)
         \o HooksStarted(Tail(procs))

\* the push g fails the branch guard, or the refspec guard
FailsBranchGuard(g) == g.env.probe # Some(g.assigned[1])
FailsRefspecGuard(g) ==
    \E i \in ColonTokens(g.args) :
        RemoteHalf(g.args[i]) # <<>> /\ RemoteHalf(g.args[i]) # g.assigned[1]

\* C18: within one request of a registered caller a command rejected by the
\* classification starts no subprocess; the subprocesses start in the order
\* probe, hooks (in list order), tool; and for a push: a failed branch check
\* is answered as such whatever the refspecs are, a push that fails the
\* branch or the refspec guard starts no hook, and the tool is started only
\* after every configured hook has run and exited 0.
C18_StepOrder ==
    (GitAnswered /\ last[1].ip \in DOMAIN branch_registry) =>
        LET g == last[1]
            hooks == HooksStarted(g.procs)
        IN /\ RejectionText(g.args) # None => g.procs = <<>>
           /\ \A i \in 1..Len(g.procs) : \A j \in (i + 1)..Len(g.procs) :
                  /\ StepRank(g.procs[i]) <= StepRank(g.procs[j])
                  /\ StepRank(g.procs[i]) = StepRank(g.procs[j]) => g.procs[i].kind = "hook"
           /\ hooks = SubSeq(PRE_PUSH_HOOKS, 1, Len(hooks))
           /\ IsSubcommand(g.args, { <<"push">> }) =>
                 /\ g.procs # <<>> /\ g.procs[1].kind = "probe"
                 /\ FailsBranchGuard(g) => g.response.body = "push_branch_denied"
                 /\ (~FailsBranchGuard(g) /\ FailsRefspecGuard(g)) =>
                        g.response.body = "push_refspec_denied"
                 /\ (FailsBranchGuard(g) \/ FailsRefspecGuard(g)) =>
                        ~Started(g, "hook") /\ ~Started(g, "tool")
                 /\ Started(g, "tool") =>
                        /\ hooks = PRE_PUSH_HOOKS
                        /\ \A n \in 1..Len(hooks) : g.env.hooks[n].kind = "ok"
                        /\ g.procs[Len(g.procs)].kind = "tool"

\* C18 witness: a push that passed both guards started the probe, the two
\* configured hooks in their order and then the tool
C18_Witness ==
    /\ GitAnswered
    /\ last[1].ip \in DOMAIN branch_registry
    /\ IsSubcommand(last[1].args, { <<"push">> })
    /\ Len(PRE_PUSH_HOOKS) = 2
    /\ Len(last[1].procs) = 4
    /\ last[1].procs[1].kind = "probe"
    /\ last[1].procs[2].n = PRE_PUSH_HOOKS[1]
    /\ last[1].procs[3].n = PRE_PUSH_HOOKS[2]
    /\ last[1].procs[4].kind = "tool"

(***************************************************************************)
(* run_pre_push_hooks on its own: the hook list and what each hook would   *)
(* do are drawn at the start and RunHooks applies the function             *)
(***************************************************************************)
HookInit ==
    /\ branch_registry = [ip \in {} |-> MAIN]
    /\ GITHUB_PAT = FALSE
    /\ PRE_PUSH_HOOKS \in HookConfigs
    /\ askpass_exists = FALSE
    /\ last \in { Some([endpoint |-> "hooks", outcomes |-> o]) :
                     o \in [1..MaxHooks -> HookOutcomes] }
    /\ llm_guard_available = FALSE
    /\ audit_log = <<>>
    /\ flow = None
    /\ NoTasks

RunHooks ==
    /\ last # None
    /\ last[1].endpoint = "hooks"
    /\ last' = Some([endpoint |-> "hooks_run", outcomes |-> last[1].outcomes,
                     result |-> run_pre_push_hooks(PRE_PUSH_HOOKS, AGENT_WORKSPACE,
                                                   last[1].outcomes)])
    /\ UNCHANGED <<branch_registry, GITHUB_PAT, PRE_PUSH_HOOKS, askpass_exists, pvars, lvars>>

HookSpec == HookInit /\ [][RunHooks]_vars

HooksRun == last # None /\ last[1].endpoint = "hooks_run"

\* the first configured hook that does not exit 0, 0 if every hook does
FirstFailing(o) ==
    IF \E k \in 1..Len(PRE_PUSH_HOOKS) : o[k].kind # "ok"
    THEN CHOOSE k \in 1..Len(PRE_PUSH_HOOKS) :
             o[k].kind # "ok" /\ \A j \in 1..(k - 1) : o[j].kind = "ok"
    ELSE 0

\* the number of hooks that are run
NumberRun(o) == IF FirstFailing(o) = 0 THEN Len(PRE_PUSH_HOOKS) ELSE FirstFailing(o)

\* the hooks run are the first ones of the list, in order, up to the first
\* one that fails, and the result is true exactly when none failed; with no
\* hook configured no process is started and the output is empty
StopsAtFirstFailure ==
    LET o == last[1].outcomes
        res == last[1].result
    IN /\ Len(res.procs) = NumberRun(o)
       /\ \A i \in 1..Len(res.procs) :
              res.procs[i].kind = "hook" /\ res.procs[i].n = PRE_PUSH_HOOKS[i]
       /\ res.success <=> (FirstFailing(o) = 0)
       /\ PRE_PUSH_HOOKS = <<>> =>
              res = [success |-> TRUE, procs |-> <<>>, output |-> <<>>]

\* C19 as stated: as StopsAtFirstFailure, and the buffer holds what every
\* hook that was run wrote to its captured stdout and stderr, the failing
\* hook included.
C19_Original ==
    HooksRun =>
        /\ StopsAtFirstFailure
        /\ \A i \in 1..NumberRun(last[1].outcomes) :
              /\ last[1].outcomes[i].stdout =>
                     Contains(last[1].result.output, HookStdout(PRE_PUSH_HOOKS[i]))
              /\ last[1].outcomes[i].stderr =>
                     Contains(last[1].result.output, HookStderr(PRE_PUSH_HOOKS[i]))

\* what the buffer holds for the i-th hook: its stdout and then its stderr,
\* each if not empty, when the hook exited; one line naming the hook when it
\* timed out or could not be launched
BufferPart(i, o) ==
    IF o[i].kind = "timeout"
    THEN << <<"Hook timed out", ":", " ", ToString(PRE_PUSH_HOOKS[i])>> >>
    ELSE IF o[i].kind = "error"
    THEN << <<"Hook failed", ":", " ", ToString(PRE_PUSH_HOOKS[i]), ":", " ", "e">> >>
    ELSE (IF o[i].stdout THEN <<HookStdout(PRE_PUSH_HOOKS[i])>> ELSE <<>>)
         \o (IF o[i].stderr THEN <<HookStderr(PRE_PUSH_HOOKS[i])>> ELSE <<>>)

RECURSIVE BufferParts(_, _, _)
BufferParts(i, n, o) ==
    IF i > n THEN <<>> ELSE BufferPart(i, o) \o BufferParts(i + 1, n, o)

\* C19 amended: as StopsAtFirstFailure, and the buffer is the newline-joined
\* output of the hooks that were run, in order: the captured stdout and
\* stderr of each hook that exited (the failing one included), and for a
\* hook that timed out or could not be launched a line naming it, without
\* anything the hook wrote.
C19_HookRunner ==
    HooksRun =>
        /\ StopsAtFirstFailure
        /\ last[1].result.output =
               Join(BufferParts(1, NumberRun(last[1].outcomes), last[1].outcomes), "\n")

\* C19 witness: the first of two hooks exits 0 having written to stdout, the
\* second times out having written to stdout, and the buffer holds the
\* output of the first and the time-out line of the second
C19_Witness ==
    /\ HooksRun
    /\ Len(PRE_PUSH_HOOKS) >= 2
    /\ last[1].outcomes[1] = [kind |-> "ok", stdout |-> TRUE, stderr |-> FALSE]
    /\ last[1].outcomes[2] = [kind |-> "timeout", stdout |-> TRUE, stderr |-> FALSE]
    /\ ~last[1].result.success
    /\ Len(last[1].result.procs) = 2
    /\ last[1].result.output =
           HookStdout(PRE_PUSH_HOOKS[1])
               \o <<"\n", "Hook timed out", ":", " ", ToString(PRE_PUSH_HOOKS[2])>>

(***************************************************************************)
(* Further properties of the proxy                                         *)
(***************************************************************************)
\* the flow matches an entry of the API policy on an API host
HitsApiPolicy(f) == f.host \in API_HOSTS /\ MatchingEntries(f) # {}

\* the flow's host equals a blocklist entry or is a subdomain of one
HitsBlocklist(f) ==
    \E d \in BLOCKED_DOMAINS :
        \/ f.host = d
        \/ /\ Len(f.host) > Len(d) + 1
           /\ SubSeq(f.host, Len(f.host) - Len(d), Len(f.host)) = <<".">> \o d

\* the answer of the detector is a finding, a failure, or neither
IsFinding(scan) == scan.kind = "response" /\ scan.status = 200 /\ ~scan.is_valid
IsFailure(scan) == scan.kind = "error" \/ scan.status # 200

\* the body is long enough to be sent to the detector, and its scan ends in
\* a detection: the health re-probe fails, or the detector reports a finding
BodyScanned(f) == f.body_len >= 10
BodyDetects(f) ==
    /\ BodyScanned(f)
    /\ IF ~f.available_before /\ f.env.health1 # "200" THEN TRUE
       ELSE IsFinding(f.env.scan1)

\* the calls made to the detector by the scan of the body
BodyCalls(f) ==
    IF ~BodyScanned(f) THEN 0
    ELSE (IF f.available_before THEN 0 ELSE 1)
         + (IF ~f.available_before /\ f.env.health1 # "200" THEN 0 ELSE 1)

\* the URL is long enough to be scanned, and its scan ends in a detection;
\* the flag it finds is true if it was before or the scan of the body set it
UrlDetects(f) ==
    /\ f.url_len > 100
    /\ IF ~(f.available_before \/ BodyScanned(f)) /\ f.env.health2 # "200" THEN TRUE
       ELSE IsFinding(f.env.scan2)

\* the kind of the reason handed to the audit log, "none" for an allowed flow
ReasonKind(f) ==
    IF f.log_calls[1].reason = None THEN "none" ELSE f.log_calls[1].reason[1][1]

\* C21: one check decides a request, in the order API policy, host
\* blocklist, body scan, URL scan: the audit reason is that of the first
\* check that blocks, a flow blocked by the API policy or the blocklist makes
\* no call to the detector, and a flow blocked by the body scan makes only the
\* calls of that scan.
C21_ChecksInOrder ==
    FlowHandled =>
        LET f == flow[1] IN
        /\ Len(f.log_calls) = 1
        /\ IF HitsApiPolicy(f)
           THEN ReasonKind(f) = "github_api_blocked" /\ f.calls = <<>>
           ELSE IF HitsBlocklist(f)
           THEN ReasonKind(f) = "blocked_domain" /\ f.calls = <<>>
           ELSE IF BodyDetects(f)
           THEN ReasonKind(f) = "secrets_detected" /\ Len(f.calls) = BodyCalls(f)
           ELSE IF UrlDetects(f)
           THEN ReasonKind(f) = "secrets_in_url"
           ELSE ReasonKind(f) = "none"
        /\ (ReasonKind(f) = "none") <=> (f.response = None)

\* C21 witness: a flow to a subdomain of a blocklisted host, with a body and
\* a URL long enough to be scanned, is blocked by the blocklist without any
\* call to the detector
C21_Witness ==
    /\ FlowHandled
    /\ flow[1].host = <<"x", ".", "pastebin", ".", "com">>
    /\ flow[1].body_len >= 10
    /\ flow[1].url_len > 100
    /\ flow[1].response = Some(403)
    /\ flow[1].log_calls[1].reason[1][1] = "blocked_domain"
    /\ flow[1].calls = <<>>

\* the health answer that the first scan of the flow meets: that of the body
\* when the body is long enough, else that of the URL
FirstScanHealth(f) == IF BodyScanned(f) THEN f.env.health1 ELSE f.env.health2

\* the flow reaches a scan of a text of at least 10 characters
ReachesScan(f) ==
    /\ ~HitsApiPolicy(f)
    /\ ~HitsBlocklist(f)
    /\ BodyScanned(f) \/ f.url_len > 100

\* C22: a scan that finds the flag false first probes the health path; when
\* the probe answers 200 the flag is true afterwards and the scan call is
\* made; when it does not, no scan call is made, the flow is blocked with
\* the single detected name scanner_unavailable and the flag is still false.
C22_ReprobeOnScan ==
    (FlowHandled /\ ReachesScan(flow[1]) /\ ~flow[1].available_before) =>
        LET f == flow[1] IN
        /\ Len(f.calls) >= 1
        /\ f.calls[1].call = "healthz"
        /\ IF FirstScanHealth(f) = "200"
           THEN /\ f.calls[1].ok
                /\ llm_guard_available
                /\ Len(f.calls) >= 2
                /\ f.calls[2].call = "analyze"
                /\ \A i \in 2..Len(f.calls) : f.calls[i].call = "analyze"
           ELSE /\ f.calls = <<[call |-> "healthz", ok |-> FALSE]>>
                /\ ~llm_guard_available
                /\ f.response = Some(403)
                /\ f.log_calls[1].blocked
                /\ f.log_calls[1].detected_secrets = Some(<<"scanner_unavailable">>)

\* C22 witness: a first flow was blocked because the probe failed, and the
\* scan of the next flow finds the detector back: the flag is true again
\* and the body went to the detector
C22_Witness ==
    /\ FlowHandled
    /\ flow[1].log_before = 1
    /\ audit_log[1].detected_secrets = Some(<<"scanner_unavailable">>)
    /\ ~flow[1].available_before
    /\ BodyScanned(flow[1])
    /\ flow[1].env.health1 = "200"
    /\ llm_guard_available
    /\ Len(flow[1].calls) >= 2
    /\ flow[1].calls[2] = [call |-> "analyze", ok |-> TRUE]

\* the scans of the flow that are sent to the detector, the flag being true
AppliedScans(f) ==
    (IF BodyScanned(f) THEN { f.env.scan1 } ELSE {})
        \cup (IF f.url_len > 100 THEN { f.env.scan2 } ELSE {})

\* C23: with the flag true, a flow that no other check blocks and whose scan
\* call fails (a status other than 200, or an error) is allowed, and the
\* call to the audit logger says blocked = false.
C23_ScanFailureAllows ==
    (/\ FlowHandled
     /\ ReachesScan(flow[1])
     /\ flow[1].available_before
     /\ \E sc \in AppliedScans(flow[1]) : IsFailure(sc)
     /\ \A sc \in AppliedScans(flow[1]) : ~IsFinding(sc))
    => /\ flow[1].response = None
       /\ flow[1].log_calls =
              <<[blocked |-> FALSE, reason |-> None, detected_secrets |-> None]>>
       /\ flow[1].env.log_write = "ok" => ~audit_log[Len(audit_log)].blocked
       /\ llm_guard_available

\* C23 witness: the flag is true, the scan call of the body raises, and the
\* flow is let through with a record that says blocked = false
C23_Witness ==
    /\ FlowHandled
    /\ flow[1].available_before
    /\ ReachesScan(flow[1])
    /\ BodyScanned(flow[1])
    /\ flow[1].env.scan1.kind = "error"
    /\ flow[1].calls[1] = [call |-> "analyze", ok |-> FALSE]
    /\ flow[1].response = None
    /\ Len(audit_log) = flow[1].log_before + 1
    /\ ~audit_log[Len(audit_log)].blocked

\* some call of the flow is a health probe
Probes(f) == \E i \in 1..Len(f.calls) : f.calls[i].call = "healthz"

\* C24: once the flag is true it stays true; it changes only in a request
\* that probes the health path; and a request that finds it true makes no
\* health probe.
C24_FlagMonotone ==
    [][/\ llm_guard_available => llm_guard_available'
       /\ llm_guard_available' # llm_guard_available =>
              flow' # None /\ Probes(flow'[1])
       /\ (llm_guard_available /\ flow = None /\ flow' # None) =>
              ~Probes(flow'[1])]_vars

\* C24 witness: the flag was true, the scan calls of two requests in a row
\* failed, and the flag is still true without any probe
C24_Witness ==
    /\ FlowHandled
    /\ flow[1].log_before = 1
    /\ ~audit_log[1].blocked
    /\ flow[1].available_before
    /\ Len(flow[1].calls) >= 1
    /\ \A i \in 1..Len(flow[1].calls) :
           flow[1].calls[i] = [call |-> "analyze", ok |-> FALSE]
    /\ llm_guard_available

=============================================================================
